---- MODULE Spec2Model ----
(***************************************************************************)
(* The 6502 interpreter of nes-core (cpu.rs, cpu_ops.rs) driving the NROM  *)
(* mapper of nes-core (mappers/mapper000.rs) through the Memory trait.     *)
(* One action per public entry point of Cpu: reset and                     *)
(* execute_single_instruction.  Every handler is translated with the bus   *)
(* calls and clock increments in the order the source issues them.         *)
(***************************************************************************)
EXTENDS Integers, Sequences, FiniteSets, TLC

VARIABLES
    reg_a, reg_x, reg_y, reg_pc, reg_s, reg_p,  \* Cpu registers
    master_clock,                               \* Cpu::master_clock
    cpu_ram, prg_rom, prg_rom_mask,             \* Mapper000 fields
    overflow_checks,                            \* build profile: are `+` / `+=` overflow-checked
    panicked,                                   \* the last call unwound with a panic
    bus_log,                                    \* bus calls issued by the last call, in order
    last_op,                                    \* "new", "reset" or "step"
    prev_op,                                    \* last_op before the last call
    n_resets, n_steps,                          \* calls made so far
    pre,                                        \* Cpu registers and clock before the last call
    pre_ram                                     \* Mapper000::cpu_ram before the last call

vars == <<reg_a, reg_x, reg_y, reg_pc, reg_s, reg_p, master_clock,
          cpu_ram, prg_rom, prg_rom_mask, overflow_checks, panicked,
          bus_log, last_op, prev_op, n_resets, n_steps, pre, pre_ram>>

CPU_CLOCK_DIV == 12

\* Bounds on the number of calls the host makes.
MaxSteps == 4
MaxResets == 2

\* Bound on the steps of one program run from reset.
MaxProgramSteps == 512

\* Bounds on the calls made on a Mapper000 alone.
MaxLoads == 2
MaxMapperCalls == 2

(***************************************************************************)
(* Bit arithmetic on unsigned integers.                                    *)
(***************************************************************************)
RECURSIVE BitAnd(_, _)
BitAnd(a, b) ==
    IF a = 0 \/ b = 0 THEN 0
    ELSE (a % 2) * (b % 2) + 2 * BitAnd(a \div 2, b \div 2)

RECURSIVE BitOr(_, _)
BitOr(a, b) ==
    IF a = 0 THEN b
    ELSE IF b = 0 THEN a
    ELSE (IF a % 2 = 1 \/ b % 2 = 1 THEN 1 ELSE 0) + 2 * BitOr(a \div 2, b \div 2)

RECURSIVE BitXor(_, _)
BitXor(a, b) ==
    IF a = 0 THEN b
    ELSE IF b = 0 THEN a
    ELSE ((a + b) % 2) + 2 * BitXor(a \div 2, b \div 2)

\* `!v` on a u8
Not8(v) == 255 - v

(***************************************************************************)
(* Mapper000: zero-initialised arrays are kept sparse, an absent index     *)
(* reading as 0.                                                           *)
(***************************************************************************)
ZeroArray == [i \in {} |-> 0]

ArrayGet(arr, i) == IF i \in DOMAIN arr THEN arr[i] ELSE 0

ArraySet(arr, i, v) ==
    IF v = 0 THEN [j \in (DOMAIN arr) \ {i} |-> arr[j]]
    ELSE [j \in (DOMAIN arr) \cup {i} |-> IF j = i THEN v ELSE arr[j]]

Mapper000_new == [cpu_ram |-> ZeroArray, prg_rom |-> ZeroArray, prg_rom_mask |-> 0]

\* `data` is a sparse slice of length `len` (a multiple of 0x4000).
load_prg_rom(m, data, len) ==
    LET prg_rom_size == IF len < \h8000 THEN len ELSE \h8000
        copied == {i \in DOMAIN data : i < prg_rom_size}
        kept == {i \in DOMAIN m.prg_rom : i >= prg_rom_size}
    IN  [m EXCEPT
            !.prg_rom = [i \in copied \cup kept |->
                            IF i \in copied THEN data[i] ELSE m.prg_rom[i]],
            !.prg_rom_mask = IF len <= \h4000 THEN \h3FFF ELSE \h7FFF]

overwrite_prg_rom(m, addr, val) ==
    [m EXCEPT !.prg_rom = ArraySet(@, BitAnd(addr, m.prg_rom_mask), val)]

\* variant: RAM is read at the address itself, without mirroring
cpu_load8_no_mirror(m, addr) ==
    IF addr < \h2000 THEN ArrayGet(m.cpu_ram, addr)
    ELSE IF addr >= \h8000 THEN ArrayGet(m.prg_rom, BitAnd(addr, m.prg_rom_mask))
    ELSE 0

cpu_load8(m, addr) ==
    IF addr < \h2000 THEN ArrayGet(m.cpu_ram, BitAnd(addr, \h7FF))
    ELSE IF addr >= \h8000 THEN ArrayGet(m.prg_rom, BitAnd(addr, m.prg_rom_mask))
    ELSE 0

\* variant: a store to 0x8000..0xFFFF writes PRG-ROM
cpu_store8_writes_rom(m, addr, val) ==
    IF addr < \h2000 THEN [m EXCEPT !.cpu_ram = ArraySet(@, BitAnd(addr, \h7FF), val)]
    ELSE IF addr >= \h8000
    THEN [m EXCEPT !.prg_rom = ArraySet(@, BitAnd(addr, m.prg_rom_mask), val)]
    ELSE m

cpu_store8(m, addr, val) ==
    IF addr < \h2000 THEN [m EXCEPT !.cpu_ram = ArraySet(@, BitAnd(addr, \h7FF), val)]
    ELSE m

(***************************************************************************)
(* The Cpu and the bus it is handed, threaded through a call as one record *)
(*   [a, x, y, pc, s, p, clk, bus, log, panicked].                         *)
(***************************************************************************)
Flag_Carry == \h01
Flag_Zero == \h02
Flag_InterruptDisable == \h04
Flag_Decimal == \h08
Flag_Overflow == \h40
Flag_Negative == \h80

\* `flag` is a single-bit mask
get_flag(c, flag) == BitAnd(c.p, flag) # 0

set_flag(c, flag, value) ==
    IF value THEN [c EXCEPT !.p = BitOr(@, flag)]
    ELSE [c EXCEPT !.p = BitAnd(@, Not8(flag))]

\* memory.cpu_load8(addr): the byte returned
Read(c, addr) == cpu_load8(c.bus, addr)

\* memory.cpu_load8(addr): the call
Load(c, addr) == [c EXCEPT !.log = Append(@, <<"load", addr, cpu_load8(c.bus, addr)>>)]

\* memory.cpu_store8(addr, val)
Store(c, addr, val) ==
    [c EXCEPT !.bus = cpu_store8(@, addr, val),
              !.log = Append(@, <<"store", addr, val>>)]

\* self.master_clock += CPU_CLOCK_DIV
Tick(c) == [c EXCEPT !.clk = @ + CPU_CLOCK_DIV]

\* self.reg_pc = self.reg_pc.wrapping_add(1)
IncPC(c) == [c EXCEPT !.pc = (@ + 1) % \h10000]

\* an overflow-checked `+` overflowed: the call unwinds here
Panic(c) == [c EXCEPT !.panicked = TRUE]

(***************************************************************************)
(* Cpu::new, Cpu::reset                                                    *)
(***************************************************************************)
Cpu_new(bus) ==
    [a |-> 0, x |-> 0, y |-> 0, pc |-> 0, s |-> 0, p |-> 0, clk |-> 0,
     bus |-> bus, log |-> <<>>, panicked |-> FALSE]

reset_clock(c) == 7 * CPU_CLOCK_DIV

\* variant: S is decremented by three, as the hardware's reset sequence does
reset_s_decrement(c) == (c.s - 3) % 256

reset_s(c) == \hFD

\* variant: the vector's high byte is read first
reset_high_first(c) ==
    LET c1 == [c EXCEPT !.clk = reset_clock(c),
                        !.p = Flag_InterruptDisable,
                        !.a = 0, !.x = 0, !.y = 0,
                        !.s = reset_s(c)]
        pc_high == Read(c1, \hFFFD)
        c2 == Load(c1, \hFFFD)
        pc_low == Read(c2, \hFFFC)
        c3 == Load(c2, \hFFFC)
    IN  [c3 EXCEPT !.pc = BitOr(pc_high * 256, pc_low)]

reset(c) ==
    LET c1 == [c EXCEPT !.clk = reset_clock(c),
                        !.p = Flag_InterruptDisable,
                        !.a = 0, !.x = 0, !.y = 0,
                        !.s = reset_s(c)]
        pc_low == Read(c1, \hFFFC)
        c2 == Load(c1, \hFFFC)
        pc_high == Read(c2, \hFFFD)
        c3 == Load(c2, \hFFFD)
    IN  [c3 EXCEPT !.pc = BitOr(pc_high * 256, pc_low)]

(***************************************************************************)
(* Cpu::get_operand_addr: the Cpu after the resolver's bus traffic, and    *)
(* the operand address it returns.  A load leaves memory as it was, so the *)
(* byte a load returns is the byte Read gives before it.                   *)
(***************************************************************************)
\* one instruction byte: load at PC, advance PC, one cycle
fetch8(c) == Tick(IncPC(Load(c, c.pc)))

\* two instruction bytes, low then high
fetch16(c) ==
    [c |-> fetch8(fetch8(c)),
     addr |-> BitOr(Read(c, (c.pc + 1) % \h10000) * 256, Read(c, c.pc))]

\* two one-cycle loads, low byte at a_low then high byte at a_high
load16(c, a_low, a_high) ==
    [c |-> Tick(Load(Tick(Load(c, a_low)), a_high)),
     addr |-> BitOr(Read(c, a_high) * 256, Read(c, a_low))]

\* the dummy read of AbsoluteX / AbsoluteY / IndirectIndexed
\* variant: the dummy access writes the byte back
index_fixup_dummy_write(c, base_addr, real_addr, is_read) ==
    LET a == BitOr(BitAnd(base_addr, \hFF00), BitAnd(real_addr, \h00FF))
    IN  IF ~is_read \/ BitAnd(real_addr, \hFF00) # BitAnd(base_addr, \hFF00)
        THEN Tick(Store(c, a, Read(c, a)))
        ELSE c

index_fixup(c, base_addr, real_addr, is_read) ==
    IF ~is_read \/ BitAnd(real_addr, \hFF00) # BitAnd(base_addr, \hFF00)
    THEN Tick(Load(c, BitOr(BitAnd(base_addr, \hFF00), BitAnd(real_addr, \h00FF))))
    ELSE c

\* ZeroPageX / ZeroPageY after the fetch of `arg`: dummy read, then add the index
\* variant: the index is added without wrapping in page 0
zero_page_indexed_no_wrap(c, arg, index) ==
    [c |-> Tick(Load(c, arg)), addr |-> arg + index]

zero_page_indexed(c, arg, index) ==
    [c |-> Tick(Load(c, arg)), addr |-> (arg + index) % 256]

\* AbsoluteX after the fetch of base_addr: `base_addr + self.reg_x as u16`,
\* a plain `+` on u16
absolute_x(base, x, is_read) ==
    LET sum == base.addr + x
        real_addr == sum % \h10000
    IN  IF sum > \hFFFF /\ overflow_checks
        THEN [c |-> Panic(base.c), addr |-> 0]
        ELSE [c |-> index_fixup(base.c, base.addr, real_addr, is_read),
              addr |-> real_addr]

\* AbsoluteY / IndirectIndexed after the load of base_addr:
\* `base_addr.wrapping_add(self.reg_y as u16)`
index_y(base, y, is_read) ==
    LET real_addr == (base.addr + y) % \h10000
    IN  [c |-> index_fixup(base.c, base.addr, real_addr, is_read),
         addr |-> real_addr]

\* Indirect after the fetch of the pointer: the high byte comes from the
\* pointer's own page
\* variant: the high byte comes from ptr + 1
indirect_no_wrap(ptr) ==
    load16(ptr.c, ptr.addr, (ptr.addr + 1) % \h10000)

indirect(ptr) ==
    load16(ptr.c, ptr.addr,
           BitOr(BitAnd(ptr.addr, \hFF00), (BitAnd(ptr.addr, \hFF) + 1) % 256))

\* IndexedIndirect after the fetch of `ptr0`: dummy read, add X, load the address
indexed_indirect(c, ptr0, x) ==
    LET ptr == (ptr0 + x) % 256
    IN  load16(Tick(Load(c, ptr0)), ptr, (ptr + 1) % 256)

get_operand_addr(c, addr_mode, is_read) ==
    CASE addr_mode = "Implicit" ->
            [c |-> Tick(Load(c, c.pc)), addr |-> 0]
      [] addr_mode = "ZeroPage" ->
            [c |-> fetch8(c), addr |-> Read(c, c.pc)]
      [] addr_mode = "ZeroPageX" ->
            zero_page_indexed(fetch8(c), Read(c, c.pc), c.x)
      [] addr_mode = "ZeroPageY" ->
            zero_page_indexed(fetch8(c), Read(c, c.pc), c.y)
      [] addr_mode = "Absolute" ->
            fetch16(c)
      [] addr_mode = "AbsoluteX" ->
            absolute_x(fetch16(c), c.x, is_read)
      [] addr_mode = "AbsoluteY" ->
            index_y(fetch16(c), c.y, is_read)
      [] addr_mode \in {"Immediate", "Relative"} ->
            [c |-> IncPC(c), addr |-> c.pc]
      [] addr_mode = "Indirect" ->
            indirect(fetch16(c))
      [] addr_mode = "IndexedIndirect" ->
            indexed_indirect(fetch8(c), Read(c, c.pc), c.x)
      [] addr_mode = "IndirectIndexed" ->
            index_y(load16(fetch8(c), Read(c, c.pc), (Read(c, c.pc) + 1) % 256),
                    c.y, is_read)

\* the handler's own read of its operand (one cycle) at the resolved address
operand_read(r) ==
    IF r.c.panicked THEN [c |-> r.c, op |-> 0, addr |-> 0]
    ELSE [c |-> Tick(Load(r.c, r.addr)), op |-> Read(r.c, r.addr), addr |-> r.addr]

\* get_operand_addr followed by the handler's operand read
fetch_operand(c, addr_mode) == operand_read(get_operand_addr(c, addr_mode, TRUE))

\* variant: N from `res > 0x80` instead of bit 7
set_zn_greater(c, res) ==
    set_flag(set_flag(c, Flag_Zero, res = 0), Flag_Negative, res > \h80)

\* set Z and N from an 8-bit result
set_zn(c, res) ==
    set_flag(set_flag(c, Flag_Zero, res = 0), Flag_Negative, BitAnd(res, \h80) # 0)

(***************************************************************************)
(* Instruction handlers (cpu.rs), in the order of the source.              *)
(***************************************************************************)
\* variant: the carry is not added
adc_sum_no_carry(op, a, carry_in) == (op + a) % \h10000

\* `(op as u16).wrapping_add(self.reg_a as u16).wrapping_add(carry_in)`
adc_sum(op, a, carry_in) == (op + a + carry_in) % \h10000

\* `(!(self.reg_a ^ op)) & (self.reg_a ^ (res & 0xFF) as u8) & 0x80`
adc_overflow(a, op, res) ==
    BitAnd(BitAnd(Not8(BitXor(a, op)), BitXor(a, BitAnd(res, \hFF))), \h80)

\* flags and accumulator from the 9-bit sum `res` of A and `op`
adc_finish(c, op, res) ==
    [set_flag(
        set_flag(
            set_flag(
                set_flag(c, Flag_Carry, BitAnd(res, \h100) # 0),
                Flag_Zero, BitAnd(res, \hFF) = 0),
            Flag_Negative, BitAnd(res, \h80) # 0),
        Flag_Overflow, adc_overflow(c.a, op, res) # 0)
     EXCEPT !.a = BitAnd(res, \hFF)]

op_adc(c, addr_mode) ==
    LET f == fetch_operand(c, addr_mode)
    IN  IF f.c.panicked THEN f.c
        ELSE adc_finish(f.c, f.op,
                        adc_sum(f.op, f.c.a, IF get_flag(f.c, Flag_Carry) THEN 1 ELSE 0))

op_and(c, addr_mode) ==
    LET f == fetch_operand(c, addr_mode)
    IN  IF f.c.panicked THEN f.c
        ELSE set_zn([f.c EXCEPT !.a = BitAnd(@, f.op)], BitAnd(f.c.a, f.op))

\* flags from the 9-bit result of a left shift or rotate
shl_flags(c, res) ==
    set_flag(
        set_flag(
            set_flag(c, Flag_Carry, BitAnd(res, \h100) # 0),
            Flag_Zero, BitAnd(res, \hFF) = 0),
        Flag_Negative, BitAnd(res, \h80) # 0)

\* flags from the result of a right shift of `op`
shr_flags(c, op, res) ==
    set_flag(
        set_flag(
            set_flag(c, Flag_Carry, BitAnd(op, \h01) # 0),
            Flag_Zero, BitAnd(res, \hFF) = 0),
        Flag_Negative, BitAnd(res, \h80) # 0)

op_asl_a(c, addr_mode) ==
    LET c0 == get_operand_addr(c, "Implicit", FALSE).c
    IN  [shl_flags(c0, c0.a * 2) EXCEPT !.a = BitAnd(@ * 2, \hFF)]

\* read-modify-write prologue at the resolved address: read the operand,
\* write it back unchanged
\* variant: no write-back of the unchanged operand
operand_rmw_no_dummy_write(r) ==
    IF r.c.panicked THEN [c |-> r.c, op |-> 0, addr |-> 0]
    ELSE [c |-> Tick(Tick(Load(r.c, r.addr))), op |-> Read(r.c, r.addr), addr |-> r.addr]

operand_rmw(r) ==
    IF r.c.panicked THEN [c |-> r.c, op |-> 0, addr |-> 0]
    ELSE [c |-> Tick(Store(Tick(Load(r.c, r.addr)), r.addr, Read(r.c, r.addr))),
          op |-> Read(r.c, r.addr), addr |-> r.addr]

\* get_operand_addr (as a writer) followed by the read-modify-write prologue
rmw_operand(c, addr_mode) == operand_rmw(get_operand_addr(c, addr_mode, FALSE))

op_asl_m(c, addr_mode) ==
    LET f == rmw_operand(c, addr_mode)
    IN  IF f.c.panicked THEN f.c
        ELSE Tick(Store(shl_flags(f.c, f.op * 2), f.addr, BitAnd(f.op * 2, \hFF)))

\* variant: no second dummy read when the branch leaves the page
relative_branch_no_page_cycle(c, op) ==
    LET offs == IF BitAnd(op, \h80) # 0 THEN BitOr(op, \hFF00) ELSE op
    IN  [Tick(Load(c, c.pc)) EXCEPT !.pc = (c.pc + offs) % \h10000]

\* variant: the offset is not sign-extended
relative_branch_unsigned(c, op) ==
    LET new_pc == (c.pc + op) % \h10000
    IN  [(IF BitAnd(new_pc, \hFF00) # BitAnd(c.pc, \hFF00)
          THEN Tick(Load(Tick(Load(c, c.pc)),
                         BitOr(BitAnd(c.pc, \hFF00), BitAnd(new_pc, \h00FF))))
          ELSE Tick(Load(c, c.pc)))
         EXCEPT !.pc = new_pc]

relative_branch(c, op) ==
    LET offs == IF BitAnd(op, \h80) # 0 THEN BitOr(op, \hFF00) ELSE op
        new_pc == (c.pc + offs) % \h10000
    IN  [(IF BitAnd(new_pc, \hFF00) # BitAnd(c.pc, \hFF00)
          THEN Tick(Load(Tick(Load(c, c.pc)),
                         BitOr(BitAnd(c.pc, \hFF00), BitAnd(new_pc, \h00FF))))
          ELSE Tick(Load(c, c.pc)))
         EXCEPT !.pc = new_pc]

\* the operand fetch every branch handler starts with
branch_operand(c) == operand_read(get_operand_addr(c, "Relative", FALSE))

\* the branch handlers after the operand fetch
\* variant: the dummy read at PC is issued whether or not the branch is taken
branch_if_always_reads(f, taken) ==
    IF taken THEN relative_branch(f.c, f.op) ELSE Tick(Load(f.c, f.c.pc))

branch_if(f, taken) == IF taken THEN relative_branch(f.c, f.op) ELSE f.c

op_bcc(c, addr_mode) == branch_if(branch_operand(c), ~get_flag(c, Flag_Carry))

op_bcs(c, addr_mode) == branch_if(branch_operand(c), get_flag(c, Flag_Carry))

op_beq(c, addr_mode) == branch_if(branch_operand(c), get_flag(c, Flag_Zero))

\* Z from A & op, V and N from bits 6 and 7 of the operand
bit_flags(c, op) ==
    set_flag(
        set_flag(
            set_flag(c, Flag_Zero, BitAnd(c.a, op) = 0),
            Flag_Overflow, BitAnd(op, \h40) # 0),
        Flag_Negative, BitAnd(op, \h80) # 0)

op_bit(c, addr_mode) ==
    LET f == fetch_operand(c, addr_mode)
    IN  IF f.c.panicked THEN f.c ELSE bit_flags(f.c, f.op)

op_bmi(c, addr_mode) == branch_if(branch_operand(c), get_flag(c, Flag_Negative))

op_bne(c, addr_mode) == branch_if(branch_operand(c), ~get_flag(c, Flag_Zero))

op_bpl(c, addr_mode) == branch_if(branch_operand(c), ~get_flag(c, Flag_Negative))

\* variant: S is decremented before the write
push_predecrement(c, val) ==
    [Tick(Store(c, BitOr(\h0100, (c.s - 1) % 256), val)) EXCEPT !.s = (c.s - 1) % 256]

push(c, val) ==
    [Tick(Store(c, BitOr(\h0100, c.s), val)) EXCEPT !.s = (c.s - 1) % 256]

\* variant: the pull reads 0x0000 + S, outside the stack page
pull_page0(c) ==
    [c |-> Tick(Load([c EXCEPT !.s = (c.s + 1) % 256], (c.s + 1) % 256)),
     val |-> Read(c, (c.s + 1) % 256)]

pull(c) ==
    [c |-> Tick(Load([c EXCEPT !.s = (c.s + 1) % 256], BitOr(\h0100, (c.s + 1) % 256))),
     val |-> Read(c, BitOr(\h0100, (c.s + 1) % 256))]

\* the two vector loads that end op_brk
brk_vector(c) ==
    [Tick(Load(Tick(Load(c, \hFFFE)), \hFFFF))
     EXCEPT !.pc = BitOr(Read(c, \hFFFF) * 256, Read(c, \hFFFE))]

\* variant: I is set before P is pushed
op_brk_sets_i_first(c, addr_mode) ==
    brk_vector(push(push(push(c, c.pc \div 256), BitAnd(c.pc, \hFF)),
                    BitOr(BitOr(c.p, Flag_InterruptDisable), \h30)))

op_brk(c, addr_mode) ==
    brk_vector(
        set_flag(
            push(push(push(c, c.pc \div 256), BitAnd(c.pc, \hFF)), BitOr(c.p, \h30)),
            Flag_InterruptDisable, TRUE))

op_bvc(c, addr_mode) == branch_if(branch_operand(c), ~get_flag(c, Flag_Overflow))

op_bvs(c, addr_mode) == branch_if(branch_operand(c), get_flag(c, Flag_Overflow))

op_clc(c, addr_mode) ==
    set_flag(get_operand_addr(c, "Implicit", FALSE).c, Flag_Carry, FALSE)

op_cld(c, addr_mode) ==
    set_flag(get_operand_addr(c, "Implicit", FALSE).c, Flag_Decimal, FALSE)

op_cli(c, addr_mode) ==
    set_flag(get_operand_addr(c, "Implicit", FALSE).c, Flag_InterruptDisable, FALSE)

op_clv(c, addr_mode) ==
    set_flag(get_operand_addr(c, "Implicit", FALSE).c, Flag_Overflow, FALSE)

\* variant: N from the unsigned order of `reg` and the operand
compare_unsigned(c, reg, op) ==
    set_flag(
        set_flag(
            set_flag(c, Flag_Carry, reg >= op),
            Flag_Zero, reg = op),
        Flag_Negative, reg < op)

\* the comparison of register value `reg` with the operand
compare(c, reg, op) ==
    set_flag(
        set_flag(
            set_flag(c, Flag_Carry, reg >= op),
            Flag_Zero, reg = op),
        Flag_Negative, BitAnd((reg - op) % \h10000, \h80) # 0)

op_cmp(c, addr_mode) ==
    LET f == fetch_operand(c, addr_mode)
    IN  IF f.c.panicked THEN f.c ELSE compare(f.c, f.c.a, f.op)

op_cpx(c, addr_mode) ==
    LET f == fetch_operand(c, addr_mode)
    IN  IF f.c.panicked THEN f.c ELSE compare(f.c, f.c.x, f.op)

op_cpy(c, addr_mode) ==
    LET f == fetch_operand(c, addr_mode)
    IN  IF f.c.panicked THEN f.c ELSE compare(f.c, f.c.y, f.op)

\* the final write of a read-modify-write handler that sets Z and N from `res`
rmw_store_zn(f, res) ==
    IF f.c.panicked THEN f.c ELSE Tick(Store(set_zn(f.c, res), f.addr, res))

op_dec(c, addr_mode) ==
    LET f == rmw_operand(c, addr_mode)
    IN  rmw_store_zn(f, (f.op - 1) % 256)

op_dex(c, addr_mode) ==
    LET c0 == get_operand_addr(c, "Implicit", FALSE).c
    IN  set_zn([c0 EXCEPT !.x = (@ - 1) % 256], (c0.x - 1) % 256)

op_dey(c, addr_mode) ==
    LET c0 == get_operand_addr(c, "Implicit", FALSE).c
    IN  set_zn([c0 EXCEPT !.y = (@ - 1) % 256], (c0.y - 1) % 256)

op_eor(c, addr_mode) ==
    LET f == fetch_operand(c, addr_mode)
    IN  IF f.c.panicked THEN f.c
        ELSE set_zn([f.c EXCEPT !.a = BitXor(@, f.op)], BitXor(f.c.a, f.op))

op_inc(c, addr_mode) ==
    LET f == rmw_operand(c, addr_mode)
    IN  rmw_store_zn(f, (f.op + 1) % 256)

op_inx(c, addr_mode) ==
    LET c0 == get_operand_addr(c, "Implicit", FALSE).c
    IN  set_zn([c0 EXCEPT !.x = (@ + 1) % 256], (c0.x + 1) % 256)

op_iny(c, addr_mode) ==
    LET c0 == get_operand_addr(c, "Implicit", FALSE).c
    IN  set_zn([c0 EXCEPT !.y = (@ + 1) % 256], (c0.y + 1) % 256)

op_jmp(c, addr_mode) ==
    LET r == get_operand_addr(c, addr_mode, FALSE)
    IN  IF r.c.panicked THEN r.c ELSE [r.c EXCEPT !.pc = r.addr]

\* op_jsr after the fetch of addr_low: dummy stack read, push PC high then low
\* variant: the low byte of PC is pushed first
jsr_push_low_first(c) ==
    push(push(Tick(Load(c, BitOr(\h0100, c.s))), BitAnd(c.pc, \hFF)), c.pc \div 256)

jsr_push(c) ==
    push(push(Tick(Load(c, BitOr(\h0100, c.s))), c.pc \div 256), BitAnd(c.pc, \hFF))

\* op_jsr after the pushes: load addr_high at PC, jump
jsr_jump(c, addr_low) ==
    [Tick(Load(c, c.pc)) EXCEPT !.pc = BitOr(Read(c, c.pc) * 256, addr_low)]

op_jsr(c, addr_mode) == jsr_jump(jsr_push(fetch8(c)), Read(c, c.pc))

op_lda(c, addr_mode) ==
    LET f == fetch_operand(c, addr_mode)
    IN  IF f.c.panicked THEN f.c ELSE set_zn([f.c EXCEPT !.a = f.op], f.op)

op_ldx(c, addr_mode) ==
    LET f == fetch_operand(c, addr_mode)
    IN  IF f.c.panicked THEN f.c ELSE set_zn([f.c EXCEPT !.x = f.op], f.op)

op_ldy(c, addr_mode) ==
    LET f == fetch_operand(c, addr_mode)
    IN  IF f.c.panicked THEN f.c ELSE set_zn([f.c EXCEPT !.y = f.op], f.op)

\* variant: an arithmetic shift, bit 7 kept
op_lsr_a_arithmetic(c, addr_mode) ==
    LET c0 == get_operand_addr(c, "Implicit", FALSE).c
    IN  [shr_flags(c0, c0.a, c0.a \div 2) EXCEPT !.a = BitOr(@ \div 2, BitAnd(@, \h80))]

op_lsr_a(c, addr_mode) ==
    LET c0 == get_operand_addr(c, "Implicit", FALSE).c
    IN  [shr_flags(c0, c0.a, c0.a \div 2) EXCEPT !.a = @ \div 2]

op_lsr_m(c, addr_mode) ==
    LET f == rmw_operand(c, addr_mode)
    IN  IF f.c.panicked THEN f.c
        ELSE Tick(Store(shr_flags(f.c, f.op, f.op \div 2), f.addr, f.op \div 2))

op_nop(c, addr_mode) == get_operand_addr(c, "Implicit", FALSE).c

op_invalid(c, addr_mode) == op_nop(c, addr_mode)

op_ora(c, addr_mode) ==
    LET f == fetch_operand(c, addr_mode)
    IN  IF f.c.panicked THEN f.c
        ELSE set_zn([f.c EXCEPT !.a = BitOr(@, f.op)], BitOr(f.c.a, f.op))

op_pha(c, addr_mode) ==
    LET c0 == get_operand_addr(c, "Implicit", FALSE).c
    IN  push(c0, c0.a)

op_php(c, addr_mode) ==
    LET c0 == get_operand_addr(c, "Implicit", FALSE).c
    IN  push(c0, BitOr(c0.p, \h30))

\* the dummy read of the current stack slot that precedes every pull sequence
stack_dummy_read(c) == Tick(Load(c, BitOr(\h0100, c.s)))

op_pla(c, addr_mode) ==
    LET r == pull(stack_dummy_read(get_operand_addr(c, "Implicit", FALSE).c))
    IN  set_zn([r.c EXCEPT !.a = r.val], r.val)

\* variant: the pulled byte is stored in P unmasked
op_plp_unmasked(c, addr_mode) ==
    LET r == pull(stack_dummy_read(get_operand_addr(c, "Implicit", FALSE).c))
    IN  [r.c EXCEPT !.p = r.val]

op_plp(c, addr_mode) ==
    LET r == pull(stack_dummy_read(get_operand_addr(c, "Implicit", FALSE).c))
    IN  [r.c EXCEPT !.p = BitAnd(r.val, \hCF)]

\* the 9-bit result of rotating `op` left through the carry
rol_res(c, op) == BitOr(op * 2, IF get_flag(c, Flag_Carry) THEN \h01 ELSE 0)

\* the result of rotating `op` right through the carry
\* variant: bit 7 of the result is always 0
ror_res_no_carry(c, op) == op \div 2

ror_res(c, op) == BitOr(op \div 2, IF get_flag(c, Flag_Carry) THEN \h80 ELSE 0)

\* the accumulator rotates after the dummy read: C from `carry`, A = res, Z and N
rotate_a(c, carry, res) == set_zn([set_flag(c, Flag_Carry, carry) EXCEPT !.a = res], res)

op_rol_a(c, addr_mode) ==
    LET c0 == get_operand_addr(c, "Implicit", FALSE).c
    IN  rotate_a(c0, BitAnd(rol_res(c0, c0.a), \h100) # 0, BitAnd(rol_res(c0, c0.a), \hFF))

\* the memory rotates after the prologue: C from `carry`, Z and N, final write
rotate_m(f, carry, res) ==
    IF f.c.panicked THEN f.c
    ELSE Tick(Store(set_zn(set_flag(f.c, Flag_Carry, carry), res), f.addr, res))

op_rol_m(c, addr_mode) ==
    LET f == rmw_operand(c, addr_mode)
    IN  rotate_m(f, BitAnd(rol_res(f.c, f.op), \h100) # 0, BitAnd(rol_res(f.c, f.op), \hFF))

op_ror_a(c, addr_mode) ==
    LET c0 == get_operand_addr(c, "Implicit", FALSE).c
    IN  rotate_a(c0, BitAnd(c0.a, \h01) # 0, BitAnd(ror_res(c0, c0.a), \hFF))

op_ror_m(c, addr_mode) ==
    LET f == rmw_operand(c, addr_mode)
    IN  rotate_m(f, BitAnd(f.op, \h01) # 0, BitAnd(ror_res(f.c, f.op), \hFF))

\* op_rti after the pulls of P and PC low: pull PC high, then set P and PC
\* variant: PC is the pulled address plus 1, as in op_rts
rti_pc_increments(c, p, pc_low) ==
    [pull(c).c EXCEPT !.p = BitAnd(p, \hCF),
                      !.pc = (BitOr(pull(c).val * 256, pc_low) + 1) % \h10000]

rti_pc(c, p, pc_low) ==
    [pull(c).c EXCEPT !.p = BitAnd(p, \hCF), !.pc = BitOr(pull(c).val * 256, pc_low)]

\* op_rti after the pull of P (`r.val`): pull PC low
rti_low(r) == rti_pc(pull(r.c).c, r.val, pull(r.c).val)

op_rti(c, addr_mode) ==
    rti_low(pull(stack_dummy_read(get_operand_addr(c, "Implicit", FALSE).c)))

\* op_rts after both pulls: PC = ret_addr + 1, and a last read at ret_addr
\* variant: PC is the pulled address itself
rts_jump_no_increment(c, ret_addr) ==
    Tick(Load([c EXCEPT !.pc = ret_addr], ret_addr))

rts_jump(c, ret_addr) ==
    Tick(Load([c EXCEPT !.pc = (ret_addr + 1) % \h10000], ret_addr))

\* op_rts after the pull of PC low (`r.val`): pull PC high
rts_high(r) == rts_jump(pull(r.c).c, BitOr(pull(r.c).val * 256, r.val))

op_rts(c, addr_mode) ==
    rts_high(pull(stack_dummy_read(get_operand_addr(c, "Implicit", FALSE).c)))

\* variant: the operand is not complemented
op_sbc_no_complement(c, addr_mode) == op_adc(c, addr_mode)

\* flags and accumulator from the 9-bit sum `res` of A and the complemented `op`
sbc_finish(c, op, res) ==
    [set_flag(
        set_flag(
            set_flag(
                set_flag(c, Flag_Carry, BitAnd(res, \h100) # 0),
                Flag_Zero, BitAnd(res, \hFF) = 0),
            Flag_Negative, BitAnd(res, \h80) # 0),
        Flag_Overflow,
        BitAnd(BitAnd(Not8(BitXor(c.a, op)), BitXor(c.a, BitAnd(res, \hFF))), \h80) # 0)
     EXCEPT !.a = BitAnd(res, \hFF)]

op_sbc(c, addr_mode) ==
    LET f == fetch_operand(c, addr_mode)
    IN  IF f.c.panicked THEN f.c
        ELSE sbc_finish(f.c, Not8(f.op),
                        (Not8(f.op) + f.c.a
                            + (IF get_flag(f.c, Flag_Carry) THEN 1 ELSE 0)) % \h10000)

op_sec(c, addr_mode) ==
    set_flag(get_operand_addr(c, "Implicit", FALSE).c, Flag_Carry, TRUE)

\* variant: SED clears the flag
op_sed_clears(c, addr_mode) ==
    set_flag(get_operand_addr(c, "Implicit", FALSE).c, Flag_Decimal, FALSE)

op_sed(c, addr_mode) ==
    set_flag(get_operand_addr(c, "Implicit", FALSE).c, Flag_Decimal, TRUE)

op_sei(c, addr_mode) ==
    set_flag(get_operand_addr(c, "Implicit", FALSE).c, Flag_InterruptDisable, TRUE)

\* the store handlers after the address is resolved
store_reg(r, val) == IF r.c.panicked THEN r.c ELSE Tick(Store(r.c, r.addr, val))

op_sta(c, addr_mode) == store_reg(get_operand_addr(c, addr_mode, FALSE), c.a)

op_stx(c, addr_mode) == store_reg(get_operand_addr(c, addr_mode, FALSE), c.x)

op_sty(c, addr_mode) == store_reg(get_operand_addr(c, addr_mode, FALSE), c.y)

op_tax(c, addr_mode) ==
    LET c0 == get_operand_addr(c, "Implicit", FALSE).c
    IN  set_zn([c0 EXCEPT !.x = c0.a], c0.a)

op_tay(c, addr_mode) ==
    LET c0 == get_operand_addr(c, "Implicit", FALSE).c
    IN  set_zn([c0 EXCEPT !.y = c0.a], c0.a)

op_tsx(c, addr_mode) ==
    LET c0 == get_operand_addr(c, "Implicit", FALSE).c
    IN  set_zn([c0 EXCEPT !.x = c0.s], c0.s)

op_txa(c, addr_mode) ==
    LET c0 == get_operand_addr(c, "Implicit", FALSE).c
    IN  set_zn([c0 EXCEPT !.a = c0.x], c0.x)

\* variant: TXS sets Z and N as the other transfers do
op_txs_sets_zn(c, addr_mode) ==
    LET c0 == get_operand_addr(c, "Implicit", FALSE).c
    IN  set_zn([c0 EXCEPT !.s = c0.x], c0.x)

op_txs(c, addr_mode) ==
    LET c0 == get_operand_addr(c, "Implicit", FALSE).c
    IN  [c0 EXCEPT !.s = c0.x]

op_tya(c, addr_mode) ==
    LET c0 == get_operand_addr(c, "Implicit", FALSE).c
    IN  set_zn([c0 EXCEPT !.a = c0.y], c0.y)

(***************************************************************************)
(* cpu_ops.rs: the static list of official encodings, and the 256-entry    *)
(* table Cpu::new builds from it.                                          *)
(***************************************************************************)
CPU_OPS ==
  <<
      [name |-> "ADC", opcode |-> \h69, addr_mode |-> "Immediate", func |-> "op_adc"],
      [name |-> "ADC", opcode |-> \h65, addr_mode |-> "ZeroPage", func |-> "op_adc"],
      [name |-> "ADC", opcode |-> \h75, addr_mode |-> "ZeroPageX", func |-> "op_adc"],
      [name |-> "ADC", opcode |-> \h6D, addr_mode |-> "Absolute", func |-> "op_adc"],
      [name |-> "ADC", opcode |-> \h7D, addr_mode |-> "AbsoluteX", func |-> "op_adc"],
      [name |-> "ADC", opcode |-> \h79, addr_mode |-> "AbsoluteY", func |-> "op_adc"],
      [name |-> "ADC", opcode |-> \h61, addr_mode |-> "IndexedIndirect", func |-> "op_adc"],
      [name |-> "ADC", opcode |-> \h71, addr_mode |-> "IndirectIndexed", func |-> "op_adc"],
      [name |-> "AND", opcode |-> \h29, addr_mode |-> "Immediate", func |-> "op_and"],
      [name |-> "AND", opcode |-> \h25, addr_mode |-> "ZeroPage", func |-> "op_and"],
      [name |-> "AND", opcode |-> \h35, addr_mode |-> "ZeroPageX", func |-> "op_and"],
      [name |-> "AND", opcode |-> \h2D, addr_mode |-> "Absolute", func |-> "op_and"],
      [name |-> "AND", opcode |-> \h3D, addr_mode |-> "AbsoluteX", func |-> "op_and"],
      [name |-> "AND", opcode |-> \h39, addr_mode |-> "AbsoluteY", func |-> "op_and"],
      [name |-> "AND", opcode |-> \h21, addr_mode |-> "IndexedIndirect", func |-> "op_and"],
      [name |-> "AND", opcode |-> \h31, addr_mode |-> "IndirectIndexed", func |-> "op_and"],
      [name |-> "ASL", opcode |-> \h0A, addr_mode |-> "Implicit", func |-> "op_asl_a"],
      [name |-> "ASL", opcode |-> \h06, addr_mode |-> "ZeroPage", func |-> "op_asl_m"],
      [name |-> "ASL", opcode |-> \h16, addr_mode |-> "ZeroPageX", func |-> "op_asl_m"],
      [name |-> "ASL", opcode |-> \h0E, addr_mode |-> "Absolute", func |-> "op_asl_m"],
      [name |-> "ASL", opcode |-> \h1E, addr_mode |-> "AbsoluteX", func |-> "op_asl_m"],
      [name |-> "BCC", opcode |-> \h90, addr_mode |-> "Relative", func |-> "op_bcc"],
      [name |-> "BCS", opcode |-> \hB0, addr_mode |-> "Relative", func |-> "op_bcs"],
      [name |-> "BEQ", opcode |-> \hF0, addr_mode |-> "Relative", func |-> "op_beq"],
      [name |-> "BIT", opcode |-> \h24, addr_mode |-> "ZeroPage", func |-> "op_bit"],
      [name |-> "BIT", opcode |-> \h2C, addr_mode |-> "Absolute", func |-> "op_bit"],
      [name |-> "BMI", opcode |-> \h30, addr_mode |-> "Relative", func |-> "op_bmi"],
      [name |-> "BNE", opcode |-> \hD0, addr_mode |-> "Relative", func |-> "op_bne"],
      [name |-> "BPL", opcode |-> \h10, addr_mode |-> "Relative", func |-> "op_bpl"],
      [name |-> "BRK", opcode |-> \h00, addr_mode |-> "Implicit", func |-> "op_brk"],
      [name |-> "BVC", opcode |-> \h50, addr_mode |-> "Relative", func |-> "op_bvc"],
      [name |-> "BVS", opcode |-> \h70, addr_mode |-> "Relative", func |-> "op_bvs"],
      [name |-> "CLC", opcode |-> \h18, addr_mode |-> "Implicit", func |-> "op_clc"],
      [name |-> "CLD", opcode |-> \hD8, addr_mode |-> "Implicit", func |-> "op_cld"],
      [name |-> "CLI", opcode |-> \h58, addr_mode |-> "Implicit", func |-> "op_cli"],
      [name |-> "CLV", opcode |-> \hB8, addr_mode |-> "Implicit", func |-> "op_clv"],
      [name |-> "CMP", opcode |-> \hC9, addr_mode |-> "Immediate", func |-> "op_cmp"],
      [name |-> "CMP", opcode |-> \hC5, addr_mode |-> "ZeroPage", func |-> "op_cmp"],
      [name |-> "CMP", opcode |-> \hD5, addr_mode |-> "ZeroPageX", func |-> "op_cmp"],
      [name |-> "CMP", opcode |-> \hCD, addr_mode |-> "Absolute", func |-> "op_cmp"],
      [name |-> "CMP", opcode |-> \hDD, addr_mode |-> "AbsoluteX", func |-> "op_cmp"],
      [name |-> "CMP", opcode |-> \hD9, addr_mode |-> "AbsoluteY", func |-> "op_cmp"],
      [name |-> "CMP", opcode |-> \hC1, addr_mode |-> "IndexedIndirect", func |-> "op_cmp"],
      [name |-> "CMP", opcode |-> \hD1, addr_mode |-> "IndirectIndexed", func |-> "op_cmp"],
      [name |-> "CPX", opcode |-> \hE0, addr_mode |-> "Immediate", func |-> "op_cpx"],
      [name |-> "CPX", opcode |-> \hE4, addr_mode |-> "ZeroPage", func |-> "op_cpx"],
      [name |-> "CPX", opcode |-> \hEC, addr_mode |-> "Absolute", func |-> "op_cpx"],
      [name |-> "CPY", opcode |-> \hC0, addr_mode |-> "Immediate", func |-> "op_cpy"],
      [name |-> "CPY", opcode |-> \hC4, addr_mode |-> "ZeroPage", func |-> "op_cpy"],
      [name |-> "CPY", opcode |-> \hCC, addr_mode |-> "Absolute", func |-> "op_cpy"],
      [name |-> "DEC", opcode |-> \hC6, addr_mode |-> "ZeroPage", func |-> "op_dec"],
      [name |-> "DEC", opcode |-> \hD6, addr_mode |-> "ZeroPageX", func |-> "op_dec"],
      [name |-> "DEC", opcode |-> \hCE, addr_mode |-> "Absolute", func |-> "op_dec"],
      [name |-> "DEC", opcode |-> \hDE, addr_mode |-> "AbsoluteX", func |-> "op_dec"],
      [name |-> "DEX", opcode |-> \hCA, addr_mode |-> "Implicit", func |-> "op_dex"],
      [name |-> "DEY", opcode |-> \h88, addr_mode |-> "Implicit", func |-> "op_dey"],
      [name |-> "EOR", opcode |-> \h49, addr_mode |-> "Immediate", func |-> "op_eor"],
      [name |-> "EOR", opcode |-> \h45, addr_mode |-> "ZeroPage", func |-> "op_eor"],
      [name |-> "EOR", opcode |-> \h55, addr_mode |-> "ZeroPageX", func |-> "op_eor"],
      [name |-> "EOR", opcode |-> \h4D, addr_mode |-> "Absolute", func |-> "op_eor"],
      [name |-> "EOR", opcode |-> \h5D, addr_mode |-> "AbsoluteX", func |-> "op_eor"],
      [name |-> "EOR", opcode |-> \h59, addr_mode |-> "AbsoluteY", func |-> "op_eor"],
      [name |-> "EOR", opcode |-> \h41, addr_mode |-> "IndexedIndirect", func |-> "op_eor"],
      [name |-> "EOR", opcode |-> \h51, addr_mode |-> "IndirectIndexed", func |-> "op_eor"],
      [name |-> "INC", opcode |-> \hE6, addr_mode |-> "ZeroPage", func |-> "op_inc"],
      [name |-> "INC", opcode |-> \hF6, addr_mode |-> "ZeroPageX", func |-> "op_inc"],
      [name |-> "INC", opcode |-> \hEE, addr_mode |-> "Absolute", func |-> "op_inc"],
      [name |-> "INC", opcode |-> \hFE, addr_mode |-> "AbsoluteX", func |-> "op_inc"],
      [name |-> "INX", opcode |-> \hE8, addr_mode |-> "Implicit", func |-> "op_inx"],
      [name |-> "INY", opcode |-> \hC8, addr_mode |-> "Implicit", func |-> "op_iny"],
      [name |-> "JMP", opcode |-> \h4C, addr_mode |-> "Absolute", func |-> "op_jmp"],
      [name |-> "JMP", opcode |-> \h6C, addr_mode |-> "Indirect", func |-> "op_jmp"],
      [name |-> "JSR", opcode |-> \h20, addr_mode |-> "Absolute", func |-> "op_jsr"],
      [name |-> "LDA", opcode |-> \hA9, addr_mode |-> "Immediate", func |-> "op_lda"],
      [name |-> "LDA", opcode |-> \hA5, addr_mode |-> "ZeroPage", func |-> "op_lda"],
      [name |-> "LDA", opcode |-> \hB5, addr_mode |-> "ZeroPageX", func |-> "op_lda"],
      [name |-> "LDA", opcode |-> \hAD, addr_mode |-> "Absolute", func |-> "op_lda"],
      [name |-> "LDA", opcode |-> \hBD, addr_mode |-> "AbsoluteX", func |-> "op_lda"],
      [name |-> "LDA", opcode |-> \hB9, addr_mode |-> "AbsoluteY", func |-> "op_lda"],
      [name |-> "LDA", opcode |-> \hA1, addr_mode |-> "IndexedIndirect", func |-> "op_lda"],
      [name |-> "LDA", opcode |-> \hB1, addr_mode |-> "IndirectIndexed", func |-> "op_lda"],
      [name |-> "LDX", opcode |-> \hA2, addr_mode |-> "Immediate", func |-> "op_ldx"],
      [name |-> "LDX", opcode |-> \hA6, addr_mode |-> "ZeroPage", func |-> "op_ldx"],
      [name |-> "LDX", opcode |-> \hB6, addr_mode |-> "ZeroPageY", func |-> "op_ldx"],
      [name |-> "LDX", opcode |-> \hAE, addr_mode |-> "Absolute", func |-> "op_ldx"],
      [name |-> "LDX", opcode |-> \hBE, addr_mode |-> "AbsoluteY", func |-> "op_ldx"],
      [name |-> "LDY", opcode |-> \hA0, addr_mode |-> "Immediate", func |-> "op_ldy"],
      [name |-> "LDY", opcode |-> \hA4, addr_mode |-> "ZeroPage", func |-> "op_ldy"],
      [name |-> "LDY", opcode |-> \hB4, addr_mode |-> "ZeroPageX", func |-> "op_ldy"],
      [name |-> "LDY", opcode |-> \hAC, addr_mode |-> "Absolute", func |-> "op_ldy"],
      [name |-> "LDY", opcode |-> \hBC, addr_mode |-> "AbsoluteX", func |-> "op_ldy"],
      [name |-> "LSR", opcode |-> \h4A, addr_mode |-> "Implicit", func |-> "op_lsr_a"],
      [name |-> "LSR", opcode |-> \h46, addr_mode |-> "ZeroPage", func |-> "op_lsr_m"],
      [name |-> "LSR", opcode |-> \h56, addr_mode |-> "ZeroPageX", func |-> "op_lsr_m"],
      [name |-> "LSR", opcode |-> \h4E, addr_mode |-> "Absolute", func |-> "op_lsr_m"],
      [name |-> "LSR", opcode |-> \h5E, addr_mode |-> "AbsoluteX", func |-> "op_lsr_m"],
      [name |-> "NOP", opcode |-> \hEA, addr_mode |-> "Implicit", func |-> "op_nop"],
      [name |-> "ORA", opcode |-> \h09, addr_mode |-> "Immediate", func |-> "op_ora"],
      [name |-> "ORA", opcode |-> \h05, addr_mode |-> "ZeroPage", func |-> "op_ora"],
      [name |-> "ORA", opcode |-> \h15, addr_mode |-> "ZeroPageX", func |-> "op_ora"],
      [name |-> "ORA", opcode |-> \h0D, addr_mode |-> "Absolute", func |-> "op_ora"],
      [name |-> "ORA", opcode |-> \h1D, addr_mode |-> "AbsoluteX", func |-> "op_ora"],
      [name |-> "ORA", opcode |-> \h19, addr_mode |-> "AbsoluteY", func |-> "op_ora"],
      [name |-> "ORA", opcode |-> \h01, addr_mode |-> "IndexedIndirect", func |-> "op_ora"],
      [name |-> "ORA", opcode |-> \h11, addr_mode |-> "IndirectIndexed", func |-> "op_ora"],
      [name |-> "PHA", opcode |-> \h48, addr_mode |-> "Implicit", func |-> "op_pha"],
      [name |-> "PHP", opcode |-> \h08, addr_mode |-> "Implicit", func |-> "op_php"],
      [name |-> "PLA", opcode |-> \h68, addr_mode |-> "Implicit", func |-> "op_pla"],
      [name |-> "PLP", opcode |-> \h28, addr_mode |-> "Implicit", func |-> "op_plp"],
      [name |-> "ROL", opcode |-> \h2A, addr_mode |-> "Implicit", func |-> "op_rol_a"],
      [name |-> "ROL", opcode |-> \h26, addr_mode |-> "ZeroPage", func |-> "op_rol_m"],
      [name |-> "ROL", opcode |-> \h36, addr_mode |-> "ZeroPageX", func |-> "op_rol_m"],
      [name |-> "ROL", opcode |-> \h2E, addr_mode |-> "Absolute", func |-> "op_rol_m"],
      [name |-> "ROL", opcode |-> \h3E, addr_mode |-> "AbsoluteX", func |-> "op_rol_m"],
      [name |-> "ROR", opcode |-> \h6A, addr_mode |-> "Implicit", func |-> "op_ror_a"],
      [name |-> "ROR", opcode |-> \h66, addr_mode |-> "ZeroPage", func |-> "op_ror_m"],
      [name |-> "ROR", opcode |-> \h76, addr_mode |-> "ZeroPageX", func |-> "op_ror_m"],
      [name |-> "ROR", opcode |-> \h6E, addr_mode |-> "Absolute", func |-> "op_ror_m"],
      [name |-> "ROR", opcode |-> \h7E, addr_mode |-> "AbsoluteX", func |-> "op_ror_m"],
      [name |-> "RTI", opcode |-> \h40, addr_mode |-> "Implicit", func |-> "op_rti"],
      [name |-> "RTS", opcode |-> \h60, addr_mode |-> "Implicit", func |-> "op_rts"],
      [name |-> "SBC", opcode |-> \hE9, addr_mode |-> "Immediate", func |-> "op_sbc"],
      [name |-> "SBC", opcode |-> \hE5, addr_mode |-> "ZeroPage", func |-> "op_sbc"],
      [name |-> "SBC", opcode |-> \hF5, addr_mode |-> "ZeroPageX", func |-> "op_sbc"],
      [name |-> "SBC", opcode |-> \hED, addr_mode |-> "Absolute", func |-> "op_sbc"],
      [name |-> "SBC", opcode |-> \hFD, addr_mode |-> "AbsoluteX", func |-> "op_sbc"],
      [name |-> "SBC", opcode |-> \hF9, addr_mode |-> "AbsoluteY", func |-> "op_sbc"],
      [name |-> "SBC", opcode |-> \hE1, addr_mode |-> "IndexedIndirect", func |-> "op_sbc"],
      [name |-> "SBC", opcode |-> \hF1, addr_mode |-> "IndirectIndexed", func |-> "op_sbc"],
      [name |-> "SEC", opcode |-> \h38, addr_mode |-> "Implicit", func |-> "op_sec"],
      [name |-> "SED", opcode |-> \hF8, addr_mode |-> "Implicit", func |-> "op_sed"],
      [name |-> "SEI", opcode |-> \h78, addr_mode |-> "Implicit", func |-> "op_sei"],
      [name |-> "STA", opcode |-> \h85, addr_mode |-> "ZeroPage", func |-> "op_sta"],
      [name |-> "STA", opcode |-> \h95, addr_mode |-> "ZeroPageX", func |-> "op_sta"],
      [name |-> "STA", opcode |-> \h8D, addr_mode |-> "Absolute", func |-> "op_sta"],
      [name |-> "STA", opcode |-> \h9D, addr_mode |-> "AbsoluteX", func |-> "op_sta"],
      [name |-> "STA", opcode |-> \h99, addr_mode |-> "AbsoluteY", func |-> "op_sta"],
      [name |-> "STA", opcode |-> \h81, addr_mode |-> "IndexedIndirect", func |-> "op_sta"],
      [name |-> "STA", opcode |-> \h91, addr_mode |-> "IndirectIndexed", func |-> "op_sta"],
      [name |-> "STX", opcode |-> \h86, addr_mode |-> "ZeroPage", func |-> "op_stx"],
      [name |-> "STX", opcode |-> \h96, addr_mode |-> "ZeroPageY", func |-> "op_stx"],
      [name |-> "STX", opcode |-> \h8E, addr_mode |-> "Absolute", func |-> "op_stx"],
      [name |-> "STY", opcode |-> \h84, addr_mode |-> "ZeroPage", func |-> "op_sty"],
      [name |-> "STY", opcode |-> \h94, addr_mode |-> "ZeroPageX", func |-> "op_sty"],
      [name |-> "STY", opcode |-> \h8C, addr_mode |-> "Absolute", func |-> "op_sty"],
      [name |-> "TAX", opcode |-> \hAA, addr_mode |-> "Implicit", func |-> "op_tax"],
      [name |-> "TAY", opcode |-> \hA8, addr_mode |-> "Implicit", func |-> "op_tay"],
      [name |-> "TSX", opcode |-> \hBA, addr_mode |-> "Implicit", func |-> "op_tsx"],
      [name |-> "TXA", opcode |-> \h8A, addr_mode |-> "Implicit", func |-> "op_txa"],
      [name |-> "TXS", opcode |-> \h9A, addr_mode |-> "Implicit", func |-> "op_txs"],
      [name |-> "TYA", opcode |-> \h98, addr_mode |-> "Implicit", func |-> "op_tya"]
  >>

\* variant: an unlisted slot holds the NOP entry
opmap_default_nop ==
    [o \in 0..255 |->
        LET hits == {i \in 1..Len(CPU_OPS) : CPU_OPS[i].opcode = o}
        IN  IF hits = {}
            THEN [name |-> "NOP", opcode |-> \hEA, addr_mode |-> "Implicit", func |-> "op_nop"]
            ELSE CPU_OPS[CHOOSE i \in hits : \A j \in hits : j <= i]]

opmap ==
    [o \in 0..255 |->
        LET hits == {i \in 1..Len(CPU_OPS) : CPU_OPS[i].opcode = o}
        IN  IF hits = {}
            THEN [name |-> "???", opcode |-> 0, addr_mode |-> "Implicit", func |-> "op_invalid"]
            ELSE CPU_OPS[CHOOSE i \in hits : \A j \in hits : j <= i]]

\* `(op.func)(self, op.addr_mode, memory)`
Dispatch(func, c, addr_mode) ==
    CASE func = "op_adc" -> op_adc(c, addr_mode)
      [] func = "op_and" -> op_and(c, addr_mode)
      [] func = "op_asl_a" -> op_asl_a(c, addr_mode)
      [] func = "op_asl_m" -> op_asl_m(c, addr_mode)
      [] func = "op_bcc" -> op_bcc(c, addr_mode)
      [] func = "op_bcs" -> op_bcs(c, addr_mode)
      [] func = "op_beq" -> op_beq(c, addr_mode)
      [] func = "op_bit" -> op_bit(c, addr_mode)
      [] func = "op_bmi" -> op_bmi(c, addr_mode)
      [] func = "op_bne" -> op_bne(c, addr_mode)
      [] func = "op_bpl" -> op_bpl(c, addr_mode)
      [] func = "op_brk" -> op_brk(c, addr_mode)
      [] func = "op_bvc" -> op_bvc(c, addr_mode)
      [] func = "op_bvs" -> op_bvs(c, addr_mode)
      [] func = "op_clc" -> op_clc(c, addr_mode)
      [] func = "op_cld" -> op_cld(c, addr_mode)
      [] func = "op_cli" -> op_cli(c, addr_mode)
      [] func = "op_clv" -> op_clv(c, addr_mode)
      [] func = "op_cmp" -> op_cmp(c, addr_mode)
      [] func = "op_cpx" -> op_cpx(c, addr_mode)
      [] func = "op_cpy" -> op_cpy(c, addr_mode)
      [] func = "op_dec" -> op_dec(c, addr_mode)
      [] func = "op_dex" -> op_dex(c, addr_mode)
      [] func = "op_dey" -> op_dey(c, addr_mode)
      [] func = "op_eor" -> op_eor(c, addr_mode)
      [] func = "op_inc" -> op_inc(c, addr_mode)
      [] func = "op_inx" -> op_inx(c, addr_mode)
      [] func = "op_iny" -> op_iny(c, addr_mode)
      [] func = "op_jmp" -> op_jmp(c, addr_mode)
      [] func = "op_jsr" -> op_jsr(c, addr_mode)
      [] func = "op_lda" -> op_lda(c, addr_mode)
      [] func = "op_ldx" -> op_ldx(c, addr_mode)
      [] func = "op_ldy" -> op_ldy(c, addr_mode)
      [] func = "op_lsr_a" -> op_lsr_a(c, addr_mode)
      [] func = "op_lsr_m" -> op_lsr_m(c, addr_mode)
      [] func = "op_nop" -> op_nop(c, addr_mode)
      [] func = "op_ora" -> op_ora(c, addr_mode)
      [] func = "op_pha" -> op_pha(c, addr_mode)
      [] func = "op_php" -> op_php(c, addr_mode)
      [] func = "op_pla" -> op_pla(c, addr_mode)
      [] func = "op_plp" -> op_plp(c, addr_mode)
      [] func = "op_rol_a" -> op_rol_a(c, addr_mode)
      [] func = "op_rol_m" -> op_rol_m(c, addr_mode)
      [] func = "op_ror_a" -> op_ror_a(c, addr_mode)
      [] func = "op_ror_m" -> op_ror_m(c, addr_mode)
      [] func = "op_rti" -> op_rti(c, addr_mode)
      [] func = "op_rts" -> op_rts(c, addr_mode)
      [] func = "op_sbc" -> op_sbc(c, addr_mode)
      [] func = "op_sec" -> op_sec(c, addr_mode)
      [] func = "op_sed" -> op_sed(c, addr_mode)
      [] func = "op_sei" -> op_sei(c, addr_mode)
      [] func = "op_sta" -> op_sta(c, addr_mode)
      [] func = "op_stx" -> op_stx(c, addr_mode)
      [] func = "op_sty" -> op_sty(c, addr_mode)
      [] func = "op_tax" -> op_tax(c, addr_mode)
      [] func = "op_tay" -> op_tay(c, addr_mode)
      [] func = "op_tsx" -> op_tsx(c, addr_mode)
      [] func = "op_txa" -> op_txa(c, addr_mode)
      [] func = "op_txs" -> op_txs(c, addr_mode)
      [] func = "op_tya" -> op_tya(c, addr_mode)
      [] func = "op_invalid" -> op_invalid(c, addr_mode)

(***************************************************************************)
(* Cpu::execute_single_instruction                                         *)
(***************************************************************************)
execute_single_instruction(c) ==
    LET opcode == Read(c, c.pc)
        op == opmap[opcode]
        c1 == Load(c, c.pc)
    IN  \* `self.reg_pc += 1`: a plain `+=` on u16
        IF c.pc = \hFFFF /\ overflow_checks THEN Panic(c1)
        ELSE Dispatch(op.func, Tick([c1 EXCEPT !.pc = (@ + 1) % \h10000]), op.addr_mode)

(***************************************************************************)
(* Cartridges: 16 KiB PRG-ROM slices handed to load_prg_rom, each holding  *)
(* a short program at 0xC000 (slice index 0) and the reset vector.         *)
(***************************************************************************)
\* a slice with `code` at index `at` and the reset vector pointing to `entry`
Cartridge(at, code, entry) ==
    LET body == {at + k - 1 : k \in 1..Len(code)}
    IN  [i \in body \cup {\h3FFC, \h3FFD} |->
            IF i \in body THEN code[i - at + 1]
            ELSE IF i = \h3FFC THEN entry % 256
            ELSE entry \div 256]

\* register and flag set-ups run before the instruction under test, each with
\* the two operand bytes that follow the opcode
Setups ==
    { [pre |-> <<>>,                       b1 |-> \h10, b2 |-> \h02],
      [pre |-> <<\hA2, \h01, \hA0, \h01>>, b1 |-> \hFF, b2 |-> \h02],
      [pre |-> <<\hC6, \h10, \hA0, \h01>>, b1 |-> \h10, b2 |-> \h80],
      [pre |-> <<\hA2, \h80>>,             b1 |-> \h80, b2 |-> \hFF],
      [pre |-> <<\hA9, \h80, \h69, \h80>>, b1 |-> \h00, b2 |-> \h00] }

\* every opcode byte after every set-up
SweepCartridges ==
    { Cartridge(0, s.pre \o <<o, s.b1, s.b2>>, \hC000) : s \in Setups, o \in 0..255 }

\* one opcode byte at 0xFFFF, entered through the reset vector
LastByteCartridges ==
    { Cartridge(\h3FFF, <<o>>, \hFFFF) : o \in {\hEA, \hA9, \hA5, \hAD, \hBD, \h4C, \h20, \h00, \h02} }

\* LDA #a ; ADC #m  and  LDA #a ; SBC #m, after SEC and/or SED
AluBytes == {\h00, \h01, \h40, \h7F, \h80, \hFF}

AluCartridges ==
    { Cartridge(0, f \o <<\hA9, a, o, m>>, \hC000) :
        f \in {<<>>, <<\h38>>, <<\hF8>>, <<\h38, \hF8>>},
        a \in AluBytes, m \in AluBytes, o \in {\h69, \hE9} }

\* LDA #r ; CMP #m,  LDX #r ; CPX #m  and  LDY #r ; CPY #m
CompareCartridges ==
    { Cartridge(0, <<p[1], r, p[2], m>>, \hC000) :
        p \in {<<\hA9, \hC9>>, <<\hA2, \hE0>>, <<\hA0, \hC0>>},
        r \in AluBytes, m \in AluBytes }

Cartridges ==
    SweepCartridges \cup LastByteCartridges \cup AluCartridges \cup CompareCartridges

(***************************************************************************)
(* The state machine                                                       *)
(***************************************************************************)
Bus == [cpu_ram |-> cpu_ram, prg_rom |-> prg_rom, prg_rom_mask |-> prg_rom_mask]

Regs == [a |-> reg_a, x |-> reg_x, y |-> reg_y, pc |-> reg_pc, s |-> reg_s,
         p |-> reg_p, clk |-> master_clock]

\* the Cpu and bus as a call receives them
Cur == [a |-> reg_a, x |-> reg_x, y |-> reg_y, pc |-> reg_pc, s |-> reg_s,
        p |-> reg_p, clk |-> master_clock, bus |-> Bus, log |-> <<>>,
        panicked |-> FALSE]

\* the Cpu and bus as a call leaves them
Becomes(c) ==
    /\ reg_a' = c.a /\ reg_x' = c.x /\ reg_y' = c.y
    /\ reg_pc' = c.pc /\ reg_s' = c.s /\ reg_p' = c.p
    /\ master_clock' = c.clk
    /\ cpu_ram' = c.bus.cpu_ram
    /\ prg_rom' = c.bus.prg_rom
    /\ prg_rom_mask' = c.bus.prg_rom_mask
    /\ panicked' = c.panicked
    /\ bus_log' = c.log

Init ==
    \E cart \in Cartridges, oc \in BOOLEAN :
        LET c == Cpu_new(load_prg_rom(Mapper000_new, cart, \h4000))
        IN  /\ reg_a = c.a /\ reg_x = c.x /\ reg_y = c.y
            /\ reg_pc = c.pc /\ reg_s = c.s /\ reg_p = c.p
            /\ master_clock = c.clk
            /\ cpu_ram = c.bus.cpu_ram
            /\ prg_rom = c.bus.prg_rom
            /\ prg_rom_mask = c.bus.prg_rom_mask
            /\ overflow_checks = oc
            /\ panicked = FALSE
            /\ bus_log = <<>>
            /\ last_op = "new"
            /\ prev_op = "new"
            /\ n_resets = 0 /\ n_steps = 0
            /\ pre = [a |-> 0, x |-> 0, y |-> 0, pc |-> 0, s |-> 0, p |-> 0, clk |-> 0]
            /\ pre_ram = ZeroArray

Reset ==
    /\ ~panicked
    /\ n_resets < MaxResets
    /\ n_resets' = n_resets + 1
    /\ UNCHANGED n_steps
    /\ Becomes(reset(Cur))
    /\ last_op' = "reset"
    /\ prev_op' = last_op
    /\ pre' = Regs
    /\ pre_ram' = cpu_ram
    /\ UNCHANGED overflow_checks

Step ==
    /\ ~panicked
    /\ n_steps < MaxSteps
    /\ n_steps' = n_steps + 1
    /\ UNCHANGED n_resets
    /\ Becomes(execute_single_instruction(Cur))
    /\ last_op' = "step"
    /\ prev_op' = last_op
    /\ pre' = Regs
    /\ pre_ram' = cpu_ram
    /\ UNCHANGED overflow_checks

Next == Reset \/ Step

Spec == Init /\ [][Next]_vars

(***************************************************************************)
(* Programs: a cartridge is loaded, the Cpu is reset once and then stepped *)
(* for as long as PC stays in the cartridge (0x8000..0xFFFF).  The bytes   *)
(* after a program are 0x00 (BRK) and the BRK vector is 0x0000, so every   *)
(* run ends in RAM.                                                        *)
(***************************************************************************)
\* LDX #n ; loop: DEX ; BNE loop
CountdownPrograms ==
    { Cartridge(0, <<\hA2, n, \hCA, \hD0, \hFD>>, \hC000) : n \in 1..255 }

\* LDX #s ; TXS ; LDA #v ; PHA ; PLA
PushPullPrograms ==
    { Cartridge(0, <<\hA2, s, \h9A, \hA9, v, \h48, \h68>>, \hC000) :
        s \in 0..255, v \in {\h01, \h80, \hFF} }

\* subroutine bodies that leave the stack balanced: RTS ; LDA #$42, RTS ;
\* PHA, PLA, RTS
JsrBodies == { <<\h60>>, <<\hA9, \h42, \h60>>, <<\h48, \h68, \h60>> }

\* LDX #s ; TXS ; JSR $C008 ; BRK ; BRK ; body,  and  20 05 C0 00 00 A9 42 60
JsrPrograms ==
    { Cartridge(0, <<\hA2, s, \h9A, \h20, \h08, \hC0, \h00, \h00>> \o body, \hC000) :
        s \in 0..255, body \in JsrBodies }
    \cup { Cartridge(0, <<\h20, \h05, \hC0, \h00, \h00, \hA9, \h42, \h60>>, \hC000) }

\* PHA, PHP, PLA, PLP, JSR, RTS, RTI, BRK
StackOpcodes == {\h48, \h08, \h68, \h28, \h20, \h60, \h40, \h00}

\* LDX #s ; TXS ; one stack instruction
StackPrograms ==
    { Cartridge(0, <<\hA2, s, \h9A, o>>, \hC000) : s \in 0..255, o \in StackOpcodes }

\* CLC or SEC ; LDA #b ; ROL A ; ROR A
\* CLC or SEC ; LDA #b ; STA $10 ; ROL $10 ; ROR $10
\* CLC or SEC ; LDA #b ; STA $0200 ; ROL $0200 ; ROR $0200
RolRorPrograms ==
    { Cartridge(0, <<f, \hA9, b>> \o t, \hC000) :
        f \in {\h18, \h38}, b \in 0..255,
        t \in { <<\h2A, \h6A>>,
                <<\h85, \h10, \h26, \h10, \h66, \h10>>,
                <<\h8D, \h00, \h02, \h2E, \h00, \h02, \h6E, \h00, \h02>> } }

\* LDA #b ; ASL A ; LSR A  and  LDA #b ; LSR A ; ASL A
\* LDA #b ; STA $10 ; ASL $10 ; LSR $10  and  LDA #b ; STA $10 ; LSR $10 ; ASL $10
ShiftPrograms ==
    { Cartridge(0, <<\hA9, b>> \o t, \hC000) :
        b \in 0..255,
        t \in { <<\h0A, \h4A>>, <<\h4A, \h0A>>,
                <<\h85, \h10, \h06, \h10, \h46, \h10>>,
                <<\h85, \h10, \h46, \h10, \h06, \h10>> } }

\* LDA #v ; STA $02pl ; LDA #$99 ; STA $0200 + pl + 1 ; LDA #w ;
\* STA $0200 | ((pl + 1) & 0xFF) ; JMP ($02pl)
JmpIndirectPrograms ==
    { Cartridge(0, <<\hA9, v, \h8D, pl, \h02,
                     \hA9, \h99, \h8D, (pl + 1) % 256, 2 + ((pl + 1) \div 256),
                     \hA9, w, \h8D, (pl + 1) % 256, \h02,
                     \h6C, pl, \h02>>, \hC000) :
        v \in {\h00, \h34}, w \in {\h12, \hC0}, pl \in {\h00, \h7F, \hFE, \hFF} }

\* LDX #x ; LDY #y ; one zero-page indexed or indirect instruction:
\* LDA zp,X ; LDX zp,Y ; LDA (zp,X) ; LDA (zp),Y ; STA zp,X ; STX zp,Y ;
\* STA (zp,X) ; STA (zp),Y ; INC zp,X
ZeroPagePrograms ==
    { Cartridge(0, <<\hA2, x, \hA0, y, o, zp>>, \hC000) :
        x \in {\h00, \h01, \hFF}, y \in {\h00, \h01, \hFF},
        zp \in {\h00, \h7F, \hFE, \hFF},
        o \in {\hB5, \hB6, \hA1, \hB1, \h95, \h96, \h81, \h91, \hF6} }

\* LDA #$D0 ; STA at ; LDA #off ; STA at + 1 ; JMP at : a BNE off written to RAM
\* at `at` and entered with Z clear
BranchPrograms ==
    { Cartridge(0, <<\hA9, \hD0, \h8D, at % 256, at \div 256,
                     \hA9, off, \h8D, (at + 1) % 256, (at + 1) \div 256,
                     \h4C, at % 256, at \div 256>>, \hC000) :
        at \in {\h01F6, \h01FB, \h01FD}, off \in {5, 10} }

\* LDX #s ; TXS ; LDA #p ; PHA ; PLP ; a flag instruction ; BRK ; JMP $0200,
\* with RTI at 0xC020 and the interrupt vector pointing to it
InterruptPrograms ==
    { Cartridge(0, <<\hA2, s, \h9A, \hA9, p, \h48, \h28, f, \h00,
                     \h4C, \h00, \h02>>, \hC000)
          @@ (\h20 :> \h40) @@ (\h3FFE :> \h20) @@ (\h3FFF :> \hC0) :
        s \in {\h00, \h01, \h02, \hFD, \hFF}, p \in {\h00, \h04, \hC3, \hFF},
        f \in {\h18, \h38, \h58, \h78, \hB8, \hD8, \hF8} }

Programs ==
    CountdownPrograms \cup PushPullPrograms \cup JsrPrograms \cup StackPrograms
        \cup RolRorPrograms \cup ShiftPrograms \cup JmpIndirectPrograms
        \cup ZeroPagePrograms \cup BranchPrograms \cup InterruptPrograms

ProgramInit ==
    \E cart \in Programs, oc \in BOOLEAN :
        LET c == Cpu_new(load_prg_rom(Mapper000_new, cart, \h4000))
        IN  /\ reg_a = c.a /\ reg_x = c.x /\ reg_y = c.y
            /\ reg_pc = c.pc /\ reg_s = c.s /\ reg_p = c.p
            /\ master_clock = c.clk
            /\ cpu_ram = c.bus.cpu_ram
            /\ prg_rom = c.bus.prg_rom
            /\ prg_rom_mask = c.bus.prg_rom_mask
            /\ overflow_checks = oc
            /\ panicked = FALSE
            /\ bus_log = <<>>
            /\ last_op = "new"
            /\ prev_op = "new"
            /\ n_resets = 0 /\ n_steps = 0
            /\ pre = [a |-> 0, x |-> 0, y |-> 0, pc |-> 0, s |-> 0, p |-> 0, clk |-> 0]
            /\ pre_ram = ZeroArray

ProgramReset ==
    /\ n_resets = 0
    /\ n_resets' = 1
    /\ UNCHANGED n_steps
    /\ Becomes(reset(Cur))
    /\ last_op' = "reset"
    /\ prev_op' = last_op
    /\ pre' = Regs
    /\ pre_ram' = cpu_ram
    /\ UNCHANGED overflow_checks

ProgramStep ==
    /\ ~panicked
    /\ n_resets = 1
    /\ n_steps < MaxProgramSteps
    /\ reg_pc >= \h8000
    /\ n_steps' = n_steps + 1
    /\ UNCHANGED n_resets
    /\ Becomes(execute_single_instruction(Cur))
    /\ last_op' = "step"
    /\ prev_op' = last_op
    /\ pre' = Regs
    /\ pre_ram' = cpu_ram
    /\ UNCHANGED overflow_checks

\* a program that has jumped (JMP) from the cartridge into RAM is stepped once
\* more, there
ProgramStepInRam ==
    /\ ~panicked
    /\ n_resets = 1
    /\ n_steps < MaxProgramSteps
    /\ reg_pc < \h8000
    /\ last_op = "step" /\ pre.pc >= \h8000
    /\ opmap[bus_log[1][3]].func = "op_jmp"
    /\ n_steps' = n_steps + 1
    /\ UNCHANGED n_resets
    /\ Becomes(execute_single_instruction(Cur))
    /\ last_op' = "step"
    /\ prev_op' = last_op
    /\ pre' = Regs
    /\ pre_ram' = cpu_ram
    /\ UNCHANGED overflow_checks

ProgramNext == ProgramReset \/ ProgramStep \/ ProgramStepInRam

ProgramSpec == ProgramInit /\ [][ProgramNext]_vars

(***************************************************************************)
(* Mapper000 alone: the INES loader's and the Memory trait's calls on a    *)
(* freshly constructed mapper, the Cpu left as constructed.  bus_log holds *)
(* the last call: its kind, address and byte (for a load, the byte         *)
(* returned).                                                              *)
(***************************************************************************)
\* PRG-ROM slices of 16, 32 and 48 KiB with distinct bytes at the bank edges
MapperImages ==
    { [len |-> \h4000, data |-> (0 :> \h11 @@ \h3FFF :> \h12)],
      [len |-> \h4000, data |-> (0 :> \h21 @@ \h3FFC :> \h22)],
      [len |-> \h8000, data |-> (0 :> \h31 @@ \h3FFF :> \h32 @@ \h4000 :> \h33
                                  @@ \h7FFF :> \h34)],
      [len |-> \hC000, data |-> (0 :> \h41 @@ \h4000 :> \h43 @@ \h8000 :> \h45)] }

\* CPU addresses at the edges of every region and mirror
MapperAddrs ==
    { \h0000, \h07FF, \h0800, \h1FFF, \h2000, \h7FFF,
      \h8000, \hBFFF, \hC000, \hFFFF }

MapperBytes == {\h00, \hAB}

MapperInit ==
    LET c == Cpu_new(Mapper000_new)
    IN  /\ reg_a = c.a /\ reg_x = c.x /\ reg_y = c.y
        /\ reg_pc = c.pc /\ reg_s = c.s /\ reg_p = c.p
        /\ master_clock = c.clk
        /\ cpu_ram = c.bus.cpu_ram
        /\ prg_rom = c.bus.prg_rom
        /\ prg_rom_mask = c.bus.prg_rom_mask
        /\ overflow_checks \in BOOLEAN
        /\ panicked = FALSE
        /\ bus_log = <<>>
        /\ last_op = "new"
        /\ prev_op = "new"
        /\ n_resets = 0 /\ n_steps = 0
        /\ pre = [a |-> 0, x |-> 0, y |-> 0, pc |-> 0, s |-> 0, p |-> 0, clk |-> 0]
        /\ pre_ram = ZeroArray

\* the mapper as a call leaves it, with the call recorded
MapperBecomes(m, call, log) ==
    /\ cpu_ram' = m.cpu_ram
    /\ prg_rom' = m.prg_rom
    /\ prg_rom_mask' = m.prg_rom_mask
    /\ bus_log' = log
    /\ last_op' = call
    /\ prev_op' = last_op
    /\ pre_ram' = cpu_ram
    /\ UNCHANGED <<reg_a, reg_x, reg_y, reg_pc, reg_s, reg_p, master_clock,
                   overflow_checks, panicked, pre>>

MapperLoadPrgRom ==
    /\ n_resets < MaxLoads
    /\ n_resets' = n_resets + 1
    /\ UNCHANGED n_steps
    /\ \E img \in MapperImages :
          MapperBecomes(load_prg_rom(Bus, img.data, img.len), "load_prg_rom", <<>>)

MapperOverwritePrgRom ==
    /\ n_steps < MaxMapperCalls
    /\ n_steps' = n_steps + 1
    /\ UNCHANGED n_resets
    /\ \E addr \in MapperAddrs, val \in MapperBytes :
          MapperBecomes(overwrite_prg_rom(Bus, addr, val), "overwrite_prg_rom",
                        << <<"overwrite", addr, val>> >>)

MapperStore8 ==
    /\ n_steps < MaxMapperCalls
    /\ n_steps' = n_steps + 1
    /\ UNCHANGED n_resets
    /\ \E addr \in MapperAddrs, val \in MapperBytes :
          MapperBecomes(cpu_store8(Bus, addr, val), "cpu_store8",
                        << <<"store", addr, val>> >>)

MapperLoad8 ==
    /\ n_steps < MaxMapperCalls
    /\ n_steps' = n_steps + 1
    /\ UNCHANGED n_resets
    /\ \E addr \in MapperAddrs :
          MapperBecomes(Bus, "cpu_load8", << <<"load", addr, cpu_load8(Bus, addr)>> >>)

MapperNext == MapperLoadPrgRom \/ MapperOverwritePrgRom \/ MapperStore8 \/ MapperLoad8

MapperSpec == MapperInit /\ [][MapperNext]_vars

(***************************************************************************)
(* The frontend's own Mapper000 (src/nes-frontend/src/main.rs), the bus    *)
(* main hands to the Cpu: 2 KiB of RAM and one 16 KiB cart_rom, addressed  *)
(* through load8 and store8.  cart_rom is held in the variable prg_rom;    *)
(* prg_rom_mask and the Cpu's registers are not used.                      *)
(***************************************************************************)
MaxFrontendCalls == 2

load8(m, addr) ==
    IF addr < \h2000 THEN ArrayGet(m.cpu_ram, BitAnd(addr, \h7FF))
    ELSE IF addr >= \h8000 THEN ArrayGet(m.cart_rom, BitAnd(addr, \h3FFF))
    ELSE 0

store8(m, addr, val) ==
    IF addr < \h2000 THEN [m EXCEPT !.cpu_ram = ArraySet(@, BitAnd(addr, \h7FF), val)]
    ELSE IF addr >= \h8000 THEN [m EXCEPT !.cart_rom = ArraySet(@, BitAnd(addr, \h3FFF), val)]
    ELSE m

\* the 16 KiB that load_test copies from the file, as sparse slices
FrontendImages ==
    { (0 :> \h4C @@ \h3FFC :> \h04 @@ \h3FFD :> \h80),
      (0 :> \hA9 @@ 1 :> \h01 @@ \h3FFF :> \hFF),
      (\h3FFC :> \h10 @@ \h3FFD :> \hC0) }

FrontendBus == [cpu_ram |-> cpu_ram, cart_rom |-> prg_rom]

\* main up to the reset: new, load_test, and the two stores of the reset vector
FrontendInit ==
    \E data \in FrontendImages :
        LET m == store8(store8([cpu_ram |-> ZeroArray, cart_rom |-> data],
                               \hFFFC, \h00), \hFFFD, \hC0)
            c == Cpu_new(Mapper000_new)
        IN  /\ reg_a = c.a /\ reg_x = c.x /\ reg_y = c.y
            /\ reg_pc = c.pc /\ reg_s = c.s /\ reg_p = c.p
            /\ master_clock = c.clk
            /\ cpu_ram = m.cpu_ram
            /\ prg_rom = m.cart_rom
            /\ prg_rom_mask = 0
            /\ overflow_checks = FALSE
            /\ panicked = FALSE
            /\ bus_log = <<>>
            /\ last_op = "main"
            /\ prev_op = "main"
            /\ n_resets = 0 /\ n_steps = 0
            /\ pre = [a |-> 0, x |-> 0, y |-> 0, pc |-> 0, s |-> 0, p |-> 0, clk |-> 0]
            /\ pre_ram = ZeroArray

\* the frontend's mapper as a call leaves it, with the call recorded
FrontendBecomes(m, call, log) ==
    /\ cpu_ram' = m.cpu_ram
    /\ prg_rom' = m.cart_rom
    /\ bus_log' = log
    /\ last_op' = call
    /\ prev_op' = last_op
    /\ pre_ram' = cpu_ram
    /\ UNCHANGED <<reg_a, reg_x, reg_y, reg_pc, reg_s, reg_p, master_clock,
                   prg_rom_mask, overflow_checks, panicked, pre>>

FrontendStore8 ==
    /\ n_steps < MaxFrontendCalls
    /\ n_steps' = n_steps + 1
    /\ UNCHANGED n_resets
    /\ \E addr \in MapperAddrs, val \in MapperBytes :
          FrontendBecomes(store8(FrontendBus, addr, val), "store8",
                          << <<"store", addr, val>> >>)

FrontendLoad8 ==
    /\ n_steps < MaxFrontendCalls
    /\ n_steps' = n_steps + 1
    /\ UNCHANGED n_resets
    /\ \E addr \in MapperAddrs :
          FrontendBecomes(FrontendBus, "load8",
                          << <<"load", addr, load8(FrontendBus, addr)>> >>)

FrontendNext == FrontendStore8 \/ FrontendLoad8

FrontendSpec == FrontendInit /\ [][FrontendNext]_vars

(***************************************************************************)
(* What the last call did, read off the history variables.                 *)
(***************************************************************************)
\* the last call was a step that returned
Stepped == last_op = "step" /\ ~panicked

\* the opcode byte the last step fetched, and its table entry
LastOpcode == bus_log[1][3]

LastEntry == opmap[LastOpcode]

LastFunc == LastEntry.func

LastMode == LastEntry.addr_mode

Official == \E i \in 1..Len(CPU_OPS) : CPU_OPS[i].opcode = LastOpcode

\* CPU cycles the last call added to the counter
CyclesCharged == (master_clock - pre.clk) \div CPU_CLOCK_DIV

PreFlag(flag) == (pre.p \div flag) % 2 = 1

NowFlag(flag) == (reg_p \div flag) % 2 = 1

\* the byte moved by the k-th bus call of the last call
BusVal(k) == bus_log[k][3]

LastBusCall == bus_log[Len(bus_log)]

Page(addr) == addr \div 256

(***************************************************************************)
(* The published 6502 timing, by instruction family and addressing mode.   *)
(***************************************************************************)
ReadFuncs == {"op_adc", "op_and", "op_bit", "op_cmp", "op_cpx", "op_cpy", "op_eor",
              "op_lda", "op_ldx", "op_ldy", "op_ora", "op_sbc"}

StoreFuncs == {"op_sta", "op_stx", "op_sty"}

RmwFuncs == {"op_asl_m", "op_lsr_m", "op_rol_m", "op_ror_m", "op_inc", "op_dec"}

BranchFuncs == {"op_bcc", "op_bcs", "op_beq", "op_bmi", "op_bne", "op_bpl", "op_bvc", "op_bvs"}

PublishedBase(func, mode) ==
    CASE func \in ReadFuncs ->
            (CASE mode = "Immediate" -> 2
               [] mode = "ZeroPage" -> 3
               [] mode \in {"ZeroPageX", "ZeroPageY", "Absolute", "AbsoluteX", "AbsoluteY"} -> 4
               [] mode = "IndexedIndirect" -> 6
               [] mode = "IndirectIndexed" -> 5)
      [] func \in StoreFuncs ->
            (CASE mode = "ZeroPage" -> 3
               [] mode \in {"ZeroPageX", "ZeroPageY", "Absolute"} -> 4
               [] mode \in {"AbsoluteX", "AbsoluteY"} -> 5
               [] mode \in {"IndexedIndirect", "IndirectIndexed"} -> 6)
      [] func \in RmwFuncs ->
            (CASE mode = "ZeroPage" -> 5
               [] mode \in {"ZeroPageX", "Absolute"} -> 6
               [] mode = "AbsoluteX" -> 7)
      [] func \in BranchFuncs -> 2
      [] func = "op_jmp" -> (IF mode = "Absolute" THEN 3 ELSE 5)
      [] func \in {"op_jsr", "op_rts", "op_rti"} -> 6
      [] func = "op_brk" -> 7
      [] func \in {"op_pha", "op_php"} -> 3
      [] func \in {"op_pla", "op_plp"} -> 4
      [] OTHER -> 2

\* whether the last step's branch condition held on entry
BranchTaken ==
    CASE LastFunc = "op_bcc" -> ~PreFlag(Flag_Carry)
      [] LastFunc = "op_bcs" -> PreFlag(Flag_Carry)
      [] LastFunc = "op_beq" -> PreFlag(Flag_Zero)
      [] LastFunc = "op_bne" -> ~PreFlag(Flag_Zero)
      [] LastFunc = "op_bmi" -> PreFlag(Flag_Negative)
      [] LastFunc = "op_bpl" -> ~PreFlag(Flag_Negative)
      [] LastFunc = "op_bvs" -> PreFlag(Flag_Overflow)
      [] LastFunc = "op_bvc" -> ~PreFlag(Flag_Overflow)
      [] OTHER -> FALSE

PublishedPenalty ==
    IF LastFunc \in ReadFuncs /\ LastMode \in {"AbsoluteX", "AbsoluteY"}
    THEN LET base == BusVal(2) + 256 * BusVal(3)
             index == IF LastMode = "AbsoluteX" THEN pre.x ELSE pre.y
         IN  IF Page((base + index) % 65536) # Page(base) THEN 1 ELSE 0
    ELSE IF LastFunc \in ReadFuncs /\ LastMode = "IndirectIndexed"
    THEN LET base == BusVal(3) + 256 * BusVal(4)
         IN  IF Page((base + pre.y) % 65536) # Page(base) THEN 1 ELSE 0
    ELSE IF BranchTaken
    THEN LET from == (pre.pc + 2) % 65536
             offset == IF BusVal(2) >= 128 THEN BusVal(2) - 256 ELSE BusVal(2)
         IN  IF Page((from + offset) % 65536) # Page(from) THEN 2 ELSE 1
    ELSE 0

PublishedCycles == PublishedBase(LastFunc, LastMode) + PublishedPenalty

(***************************************************************************)
(* Claims                                                                  *)
(***************************************************************************)

\* C1: every official opcode is charged its published cycle count (base count
\* plus the page-cross and branch penalties) by one step.
C1_PublishedCycleCounts ==
    (Stepped /\ Official) => CyclesCharged = PublishedCycles

\* C2: every step, on any opcode byte, returns after at most 8 bus calls and
\* charges between 2 and 8 cycles.
C2_StepBounded ==
    last_op = "step" =>
        /\ ~panicked
        /\ Len(bus_log) <= 8
        /\ CyclesCharged >= 2 /\ CyclesCharged <= 8

\* C3: over any sequence of reset and step calls the cycle counter never
\* decreases from one call to the next.
C3_ClockNeverDecreases == master_clock >= pre.clk

\* C4: reset sets P = 0x04, A = X = Y = 0, S = 0xFD and PC from the vector at
\* 0xFFFC/0xFFFD, reading exactly those two bytes in that order and writing nothing.
C4_ResetState ==
    last_op = "reset" =>
        LET lo == cpu_load8(Bus, 65532)
            hi == cpu_load8(Bus, 65533)
        IN  /\ reg_p = 4
            /\ reg_a = 0 /\ reg_x = 0 /\ reg_y = 0
            /\ reg_s = 253
            /\ reg_pc = lo + 256 * hi
            /\ bus_log = << <<"load", 65532, lo>>, <<"load", 65533, hi>> >>

C4_Witness ==
    /\ last_op = "reset"
    /\ pre.x # 0 /\ pre.s # 253 /\ pre.p # 4 /\ pre.pc # reg_pc
    /\ reg_pc = 49152

\* C5: reset adds 7 cycles to whatever the counter held before.
C5_ResetAddsSeven ==
    last_op = "reset" => master_clock = pre.clk + 7 * CPU_CLOCK_DIV

\* C6: a reset that directly follows a reset leaves A, X, Y, S, P and PC as the
\* first reset left them.
C6_ResetIdempotent ==
    (last_op = "reset" /\ prev_op = "reset") =>
        /\ reg_a = pre.a /\ reg_x = pre.x /\ reg_y = pre.y
        /\ reg_s = pre.s /\ reg_p = pre.p /\ reg_pc = pre.pc

C6_Witness ==
    /\ last_op = "reset" /\ prev_op = "reset"
    /\ n_steps > 0
    /\ cpu_ram # ZeroArray
    /\ reg_pc = 49152

\* C7: a step whose opcode is fetched at PC = 0xFFFF returns normally, PC having
\* wrapped to 0x0000, where the operand fetch continues.
C7_FetchAtTopWraps ==
    (last_op = "step" /\ pre.pc = 65535) =>
        /\ ~panicked
        /\ LastMode \notin {"Implicit"} => (bus_log[2][1] = "load" /\ bus_log[2][2] = 0)

\* C8: after a load, transfer, logic, add/subtract, shift/rotate,
\* increment/decrement or PLA, Z is set iff the byte written to the destination
\* is 0 and N is bit 7 of that byte.
ZNFuncsA == {"op_lda", "op_txa", "op_tya", "op_and", "op_eor", "op_ora", "op_adc",
             "op_sbc", "op_asl_a", "op_lsr_a", "op_rol_a", "op_ror_a", "op_pla"}

ZNFuncsX == {"op_ldx", "op_tax", "op_tsx", "op_inx", "op_dex"}

ZNFuncsY == {"op_ldy", "op_tay", "op_iny", "op_dey"}

ZNResult ==
    CASE LastFunc \in ZNFuncsA -> reg_a
      [] LastFunc \in ZNFuncsX -> reg_x
      [] LastFunc \in ZNFuncsY -> reg_y
      [] LastFunc \in RmwFuncs -> LastBusCall[3]

C8_ZeroNegativeTrackResult ==
    (Stepped /\ LastFunc \in ZNFuncsA \cup ZNFuncsX \cup ZNFuncsY \cup RmwFuncs) =>
        /\ LastFunc \in RmwFuncs => LastBusCall[1] = "store"
        /\ NowFlag(Flag_Zero) <=> (ZNResult = 0)
        /\ NowFlag(Flag_Negative) <=> (ZNResult >= 128)

C8_Witness ==
    /\ Stepped
    /\ LastFunc = "op_inc"
    /\ ZNResult = 0 /\ NowFlag(Flag_Zero) /\ ~NowFlag(Flag_Negative)
    /\ ~PreFlag(Flag_Zero)

\* C9: ADC adds A, M and the carry as a 9-bit sum, sets C, Z, N and V from it,
\* and does so whether or not the Decimal flag is set.
C9_AdcBinarySum ==
    (Stepped /\ LastFunc = "op_adc") =>
        LET A == pre.a
            M == LastBusCall[3]
            r == A + M + (IF PreFlag(Flag_Carry) THEN 1 ELSE 0)
        IN  /\ reg_a = r % 256
            /\ NowFlag(Flag_Carry) <=> (r >= 256)
            /\ NowFlag(Flag_Zero) <=> (reg_a = 0)
            /\ NowFlag(Flag_Negative) <=> (reg_a >= 128)
            /\ NowFlag(Flag_Overflow) <=>
                    ((A >= 128) = (M >= 128) /\ (A >= 128) # (reg_a >= 128))
            /\ NowFlag(Flag_Decimal) <=> PreFlag(Flag_Decimal)
            /\ (A = 127 /\ M = 1 /\ ~PreFlag(Flag_Carry)) =>
                    (reg_a = 128 /\ ~NowFlag(Flag_Carry) /\ NowFlag(Flag_Negative)
                     /\ NowFlag(Flag_Overflow))
            /\ (A = 255 /\ M = 1 /\ ~PreFlag(Flag_Carry)) =>
                    (reg_a = 0 /\ NowFlag(Flag_Carry) /\ NowFlag(Flag_Zero)
                     /\ ~NowFlag(Flag_Overflow))

C9_Witness ==
    /\ Stepped /\ LastFunc = "op_adc"
    /\ PreFlag(Flag_Decimal) /\ PreFlag(Flag_Carry)
    /\ pre.a = 127 /\ LastBusCall[3] = 128
    /\ reg_a = 0 /\ NowFlag(Flag_Carry)

\* C10: SBC is ADC of the complemented operand; with the carry set on entry it
\* is exact subtraction, A' = (A - M) mod 256 with C' set iff A >= M.
C10_SbcIsAdcOfComplement ==
    (Stepped /\ LastFunc = "op_sbc") =>
        LET A == pre.a
            M == LastBusCall[3]
            W == 255 - M
            r == A + W + (IF PreFlag(Flag_Carry) THEN 1 ELSE 0)
        IN  /\ reg_a = r % 256
            /\ NowFlag(Flag_Carry) <=> (r >= 256)
            /\ NowFlag(Flag_Zero) <=> (reg_a = 0)
            /\ NowFlag(Flag_Negative) <=> (reg_a >= 128)
            /\ NowFlag(Flag_Overflow) <=>
                    ((A >= 128) = (W >= 128) /\ (A >= 128) # (reg_a >= 128))
            /\ NowFlag(Flag_Decimal) <=> PreFlag(Flag_Decimal)
            /\ PreFlag(Flag_Carry) =>
                    (reg_a = (A - M) % 256 /\ (NowFlag(Flag_Carry) <=> (A >= M)))

C10_Witness ==
    /\ Stepped /\ LastFunc = "op_sbc"
    /\ PreFlag(Flag_Carry) /\ PreFlag(Flag_Decimal)
    /\ pre.a = 1 /\ LastBusCall[3] = 128
    /\ reg_a = 129 /\ ~NowFlag(Flag_Carry)

\* the last call issued no cpu_store8 and left the RAM as it was
MemoryUnchanged ==
    /\ cpu_ram = pre_ram
    /\ \A k \in 1..Len(bus_log) : bus_log[k][1] # "store"

\* C11: CMP, CPX and CPY set C = (reg >= M), Z = (reg = M) and N = bit 7 of
\* (reg - M) mod 256, and leave A, X, Y, S, the V, I and D flags and memory
\* unchanged.
CompareFuncs == {"op_cmp", "op_cpx", "op_cpy"}

C11_CompareFlags ==
    (Stepped /\ LastFunc \in CompareFuncs) =>
        LET reg == CASE LastFunc = "op_cmp" -> pre.a
                     [] LastFunc = "op_cpx" -> pre.x
                     [] LastFunc = "op_cpy" -> pre.y
            M == LastBusCall[3]
        IN  /\ LastBusCall[1] = "load"
            /\ NowFlag(Flag_Carry) <=> (reg >= M)
            /\ NowFlag(Flag_Zero) <=> (reg = M)
            /\ NowFlag(Flag_Negative) <=> ((reg - M) % 256 >= 128)
            /\ reg_a = pre.a /\ reg_x = pre.x /\ reg_y = pre.y /\ reg_s = pre.s
            /\ NowFlag(Flag_Overflow) <=> PreFlag(Flag_Overflow)
            /\ NowFlag(Flag_InterruptDisable) <=> PreFlag(Flag_InterruptDisable)
            /\ NowFlag(Flag_Decimal) <=> PreFlag(Flag_Decimal)
            /\ MemoryUnchanged

C11_Witness ==
    /\ Stepped /\ LastFunc = "op_cmp"
    /\ pre.a = 1 /\ LastBusCall[3] = 255
    /\ ~NowFlag(Flag_Carry) /\ ~NowFlag(Flag_Zero) /\ ~NowFlag(Flag_Negative)

\* the byte at index i of the loaded PRG-ROM slice
Rom(i) == ArrayGet(prg_rom, i)

\* the address 0x0100 | S for S = s + d modulo 256
StackAddr(s, d) == 256 + ((s + d) % 256)

\* C12: every stack write, stack read and dummy stack read of PHA, PHP, PLA,
\* PLP, JSR, RTS, RTI and BRK targets 0x0100 | S for the S current at that
\* access, S wrapping modulo 256 in both directions.
StackFuncs == {"op_pha", "op_php", "op_pla", "op_plp", "op_jsr", "op_rts", "op_rti",
               "op_brk"}

\* the stack accesses of one instruction: position in the step's bus calls,
\* kind, and S at the access relative to S on entry
StackTraffic(func) ==
    CASE func \in {"op_pha", "op_php"} -> << <<3, "store", 0>> >>
      [] func \in {"op_pla", "op_plp"} -> << <<3, "load", 0>>, <<4, "load", 1>> >>
      [] func = "op_jsr" -> << <<3, "load", 0>>, <<4, "store", 0>>, <<5, "store", -1>> >>
      [] func = "op_rts" -> << <<3, "load", 0>>, <<4, "load", 1>>, <<5, "load", 2>> >>
      [] func = "op_rti" ->
            << <<3, "load", 0>>, <<4, "load", 1>>, <<5, "load", 2>>, <<6, "load", 3>> >>
      [] func = "op_brk" -> << <<2, "store", 0>>, <<3, "store", -1>>, <<4, "store", -2>> >>

\* the change of S over one instruction
StackDelta(func) ==
    CASE func \in {"op_pha", "op_php"} -> -1
      [] func \in {"op_pla", "op_plp"} -> 1
      [] func = "op_jsr" -> -2
      [] func = "op_rts" -> 2
      [] func = "op_rti" -> 3
      [] func = "op_brk" -> -3

C12_StackPage ==
    (Stepped /\ LastFunc \in StackFuncs) =>
        /\ \A i \in 1..Len(StackTraffic(LastFunc)) :
              LET t == StackTraffic(LastFunc)[i]
              IN  /\ t[1] <= Len(bus_log)
                  /\ bus_log[t[1]][1] = t[2]
                  /\ bus_log[t[1]][2] = StackAddr(pre.s, t[3])
                  /\ bus_log[t[1]][2] \in 256..511
        /\ \A k \in 1..Len(bus_log) :
              bus_log[k][1] = "store" => bus_log[k][2] \in 256..511
        /\ reg_s = (pre.s + StackDelta(LastFunc)) % 256

C12_Witness ==
    /\ Stepped /\ LastFunc = "op_rti"
    /\ pre.s = 254 /\ reg_s = 1
    /\ bus_log[5][2] = 256 /\ bus_log[6][2] = 257

\* C13: PHA directly followed by PLA pulls the byte pushed and leaves S at its
\* starting value, for every starting S, S = 0x00 (where the push wraps S to
\* 0xFF) included.  The program is LDX #s ; TXS ; LDA #v ; PHA ; PLA.
IsPushPull == Rom(2) = 154 /\ Rom(3) = 169 /\ Rom(5) = 72 /\ Rom(6) = 104

C13_PushThenPull ==
    (IsPushPull /\ n_steps = 5) =>
        LET s == Rom(1)
            v == Rom(4)
        IN  /\ Stepped /\ LastFunc = "op_pla"
            /\ pre.s = (s - 1) % 256
            /\ LastBusCall = <<"load", StackAddr(s, 0), v>>
            /\ reg_a = v
            /\ reg_s = s

C13_Witness ==
    /\ IsPushPull /\ n_steps = 5
    /\ Rom(1) = 0 /\ Rom(4) = 128
    /\ pre.s = 255 /\ reg_s = 0 /\ reg_a = 128
    /\ ArrayGet(cpu_ram, 256) = 128

\* C14: in every state reachable by reset and step calls the P register has
\* bits B (0x10) and U (0x20) clear, although PHP and BRK push P | 0x30 and PLP
\* and RTI pull bytes that have those bits set.
C14_NoBreakBitsInP == BitAnd(reg_p, 48) = 0

C14_Witness ==
    /\ Stepped /\ LastFunc = "op_plp"
    /\ LastBusCall[1] = "load" /\ BitAnd(LastBusCall[3], 48) = 48
    /\ reg_p = BitAnd(LastBusCall[3], 207)

\* C15: a step on an opcode byte that is not an official encoding never fails
\* and is a two-cycle NOP: the opcode fetch, one dummy read at the following
\* address, PC advanced by 1, and A, X, Y, S, P and memory unchanged.
C15_InvalidOpcodeIsNop ==
    (last_op = "step" /\ ~Official) =>
        /\ ~panicked
        /\ bus_log = << <<"load", pre.pc, LastOpcode>>,
                        <<"load", (pre.pc + 1) % 65536, bus_log[2][3]>> >>
        /\ CyclesCharged = 2
        /\ reg_pc = (pre.pc + 1) % 65536
        /\ reg_a = pre.a /\ reg_x = pre.x /\ reg_y = pre.y
        /\ reg_s = pre.s /\ reg_p = pre.p
        /\ MemoryUnchanged

\* the quoted program 20 05 C0 00 00 A9 42 60
IsQuotedJsr == Rom(0) = 32 /\ Rom(1) = 5 /\ Rom(7) = 96

IsJsrProgram == IsQuotedJsr \/ (Rom(2) = 154 /\ Rom(3) = 32 /\ Rom(4) = 8)

\* the address of the JSR, S before it, and the steps up to and including it
JsrAt == IF IsQuotedJsr THEN 49152 ELSE 49155

JsrStartS == IF IsQuotedJsr THEN 253 ELSE Rom(1)

JsrStep == IF IsQuotedJsr THEN 1 ELSE 3

\* instructions of the subroutine, the RTS included
JsrBodyLen ==
    CASE IsQuotedJsr -> 2
      [] Rom(8) = 96 -> 1
      [] Rom(8) = 169 -> 2
      [] OTHER -> 3

\* C16: a JSR at address a followed by a stack-balanced subroutine ending in RTS
\* returns with PC = a + 3 and S as before the JSR, for every starting S; in the
\* program 20 05 C0 00 00 A9 42 60 at 0xC000, after 3 steps A = 0x42 and
\* PC = 0xC003.
C16_JsrRtsRoundTrip ==
    IsJsrProgram =>
        /\ n_steps = JsrStep =>
              /\ Stepped /\ LastFunc = "op_jsr"
              /\ pre.pc = JsrAt /\ pre.s = JsrStartS
              /\ reg_s = (JsrStartS - 2) % 256
        /\ n_steps = JsrStep + JsrBodyLen =>
              /\ Stepped /\ LastFunc = "op_rts"
              /\ reg_pc = JsrAt + 3
              /\ reg_s = JsrStartS
              /\ IsQuotedJsr => (n_steps = 3 /\ reg_a = 66 /\ reg_pc = 49155)

C16_Witness ==
    /\ IsJsrProgram /\ Rom(1) = 0 /\ Rom(8) = 72
    /\ Stepped /\ LastFunc = "op_rts" /\ n_steps = 6
    /\ pre.s = 254 /\ reg_s = 0 /\ reg_pc = 49158
    /\ ArrayGet(cpu_ram, 256) = 192 /\ ArrayGet(cpu_ram, 511) = 5

C18_BrkPushesPcPlus2 ==
    (Stepped /\ LastFunc = "op_brk") =>
        bus_log[2][3] * 256 + bus_log[3][3] = (pre.pc + 2) % 65536

IsCountdown == Rom(0) = 162 /\ Rom(2) = 202 /\ Rom(3) = 208 /\ Rom(4) = 253

\* CPU cycles charged since the end of the reset
CyclesSinceReset == (master_clock - 7 * CPU_CLOCK_DIV) \div CPU_CLOCK_DIV

\* C19: LDX #n ; DEX ; BNE -3 at 0xC000, stepped after a reset, leaves the loop
\* for every n in 1..255: after exactly 1 + 2n steps PC = 0xC005, X = 0, Z = 1
\* and 2 + 5n - 1 cycles have been charged since the reset; before that PC is
\* inside the loop.
C19_CountdownExits ==
    (IsCountdown /\ n_resets = 1) =>
        LET n == Rom(1)
        IN  /\ n_steps < 1 + 2 * n =>
                /\ ~panicked
                /\ reg_pc \in 49152..49156
                /\ n_steps > 0 => reg_x = n - (n_steps \div 2)
            /\ n_steps = 1 + 2 * n =>
                /\ Stepped /\ LastFunc = "op_bne"
                /\ reg_pc = 49157
                /\ reg_x = 0
                /\ NowFlag(Flag_Zero)
                /\ CyclesSinceReset = 2 + 5 * n - 1
                /\ CyclesCharged = 2
                /\ n = 3 => CyclesSinceReset = 16

C19_Witness ==
    /\ IsCountdown /\ Rom(1) = 255 /\ n_steps = 511
    /\ reg_pc = 49157 /\ reg_x = 0 /\ NowFlag(Flag_Zero)
    /\ CyclesSinceReset = 1276

IsRolRor == Rom(0) \in {24, 56} /\ Rom(1) = 169 /\ Rom(3) \in {42, 133, 141}

\* the steps up to and including the ROL, and the byte it rotates
RolStep == IF Rom(3) = 42 THEN 3 ELSE 4

RolRorOperand ==
    CASE Rom(3) = 42 -> reg_a
      [] Rom(3) = 133 -> ArrayGet(cpu_ram, 16)
      [] OTHER -> ArrayGet(cpu_ram, 512)

\* C20: for every byte b and carry c, ROL then ROR of the same operand, the
\* carry of the ROL going into the ROR, gives the operand b and the carry c
\* again, for the accumulator and the memory variants.
C20_RolThenRor ==
    IsRolRor =>
        LET b == Rom(2)
            c == IF Rom(0) = 56 THEN 1 ELSE 0
        IN  /\ n_steps = RolStep =>
                /\ Stepped /\ LastFunc \in {"op_rol_a", "op_rol_m"}
                /\ RolRorOperand = (2 * b + c) % 256
                /\ NowFlag(Flag_Carry) <=> b >= 128
            /\ n_steps = RolStep + 1 =>
                /\ Stepped /\ LastFunc \in {"op_ror_a", "op_ror_m"}
                /\ RolRorOperand = b
                /\ NowFlag(Flag_Carry) <=> c = 1

C20_Witness ==
    /\ IsRolRor /\ Rom(0) = 56 /\ Rom(2) = 1 /\ Rom(3) = 133
    /\ n_steps = 5 /\ LastFunc = "op_ror_m"
    /\ ArrayGet(pre_ram, 16) = 3 /\ ~PreFlag(Flag_Carry)
    /\ ArrayGet(cpu_ram, 16) = 1 /\ NowFlag(Flag_Carry)

IsShift == Rom(0) = 169 /\ Rom(2) \in {10, 74, 133}

\* the program shifts left first
ShiftLeftFirst == Rom(2) = 10 \/ (Rom(2) = 133 /\ Rom(4) = 6)

\* the steps up to and including the first shift, and the byte it shifts
ShiftStep == IF Rom(2) = 133 THEN 3 ELSE 2

ShiftOperand == IF Rom(2) = 133 THEN ArrayGet(cpu_ram, 16) ELSE reg_a

\* C21: for every byte b, ASL then LSR leaves b & 0x7F, the carry after the ASL
\* being bit 7 of b, and LSR then ASL leaves b & 0xFE, the carry after the LSR
\* being bit 0 of b.
C21_ShiftPairs ==
    IsShift =>
        LET b == Rom(1)
        IN  /\ n_steps = ShiftStep =>
                /\ Stepped
                /\ LastFunc \in (IF ShiftLeftFirst THEN {"op_asl_a", "op_asl_m"}
                                  ELSE {"op_lsr_a", "op_lsr_m"})
                /\ ShiftOperand = (IF ShiftLeftFirst THEN (2 * b) % 256 ELSE b \div 2)
                /\ NowFlag(Flag_Carry) <=>
                       (IF ShiftLeftFirst THEN b >= 128 ELSE b % 2 = 1)
            /\ n_steps = ShiftStep + 1 =>
                /\ Stepped
                /\ LastFunc \in (IF ShiftLeftFirst THEN {"op_lsr_a", "op_lsr_m"}
                                  ELSE {"op_asl_a", "op_asl_m"})
                /\ ShiftOperand = (IF ShiftLeftFirst THEN b % 128 ELSE b - (b % 2))

C21_Witness ==
    /\ IsShift /\ Rom(1) = 195 /\ Rom(2) = 10
    /\ n_steps = 3 /\ LastFunc = "op_lsr_a"
    /\ pre.a = 134 /\ PreFlag(Flag_Carry)
    /\ reg_a = 67

\* a mapper call other than load_prg_rom was the last call
MapperCalled == last_op \in {"overwrite_prg_rom", "cpu_store8", "cpu_load8"}

\* the mirrors of a RAM address below 0x2000
RamMirrors(a) == {(a % 2048) + 2048 * k : k \in 0..3}

\* C22: after load_prg_rom, a load below 0x2000 returns the RAM byte at
\* a mod 0x800, so a store is visible at every mirror; with a 16 KiB PRG-ROM
\* loads at a and a + 0x4000 agree for a in 0x8000..0xBFFF; with a 32 KiB
\* PRG-ROM a load at a in 0x8000..0xFFFF returns ROM byte a - 0x8000.
C22_NromReadMap ==
    prg_rom_mask # 0 =>
        /\ prg_rom_mask \in {16383, 32767}
        /\ \A a \in MapperAddrs :
              /\ a < 8192 => cpu_load8(Bus, a) = ArrayGet(cpu_ram, a % 2048)
              /\ (a >= 32768 /\ a < 49152 /\ prg_rom_mask = 16383) =>
                    cpu_load8(Bus, a) = cpu_load8(Bus, a + 16384)
              /\ (a >= 32768 /\ prg_rom_mask = 32767) =>
                    cpu_load8(Bus, a) = ArrayGet(prg_rom, a - 32768)
        /\ (last_op = "cpu_store8" /\ bus_log[1][2] < 8192) =>
              \A m \in RamMirrors(bus_log[1][2]) : cpu_load8(Bus, m) = bus_log[1][3]
        /\ (last_op = "cpu_load8" /\ bus_log[1][2] < 8192) =>
              bus_log[1][3] = ArrayGet(cpu_ram, bus_log[1][2] % 2048)
        /\ (last_op = "cpu_load8" /\ bus_log[1][2] >= 32768) =>
              bus_log[1][3] = ArrayGet(prg_rom, (bus_log[1][2] - 32768) % (prg_rom_mask + 1))

C22_Witness ==
    /\ prg_rom_mask = 16383
    /\ last_op = "cpu_store8" /\ bus_log[1] = <<"store", 8191, 171>>
    /\ cpu_load8(Bus, 2047) = 171 /\ cpu_load8(Bus, 4095) = 171
    /\ cpu_load8(Bus, 32768) = 17 /\ cpu_load8(Bus, 49152) = 17
    /\ cpu_load8(Bus, 49151) = 18 /\ cpu_load8(Bus, 65535) = 18

\* C23: a cpu_store8 to 0x8000..0xFFFF changes neither PRG-ROM nor RAM, so
\* every load returns what it returned before the store; PRG-ROM changes only
\* in load_prg_rom and overwrite_prg_rom.
C23_RomStoreIgnored ==
    [][ /\ (last_op' = "cpu_store8" /\ bus_log'[1][2] >= 32768) =>
              /\ prg_rom' = prg_rom /\ cpu_ram' = cpu_ram
              /\ prg_rom_mask' = prg_rom_mask
              /\ \A a \in MapperAddrs : cpu_load8(Bus', a) = cpu_load8(Bus, a)
        /\ prg_rom' # prg_rom => last_op' \in {"load_prg_rom", "overwrite_prg_rom"}
      ]_vars

C23_Witness ==
    /\ prg_rom_mask = 32767
    /\ last_op = "cpu_store8" /\ bus_log[1] = <<"store", 65535, 171>>
    /\ prev_op = "overwrite_prg_rom"
    /\ cpu_load8(Bus, 65535) = 0
    /\ cpu_load8(Bus, 32768) = 49

\* the opcode bytes of the static list
ListedOpcodes == {CPU_OPS[i].opcode : i \in 1..Len(CPU_OPS)}

\* the table against the static list
OpmapConsistent ==
    /\ DOMAIN opmap = 0..255
    /\ Len(CPU_OPS) = 151
    /\ Cardinality(ListedOpcodes) = 151
    /\ \A i \in 1..Len(CPU_OPS) : opmap[CPU_OPS[i].opcode] = CPU_OPS[i]
    /\ Cardinality((0..255) \ ListedOpcodes) = 105
    /\ \A o \in (0..255) \ ListedOpcodes :
          /\ opmap[o].func = "op_invalid"
          /\ opmap[o].name = "???"
          /\ opmap[o].addr_mode = "Implicit"

\* C24: after construction the opcode table has 256 slots; the static list
\* has 151 entries with pairwise distinct opcode bytes, each stored at the slot
\* of its opcode byte with its addressing mode, handler and mnemonic; each of
\* the other 105 slots holds the invalid-opcode handler with mnemonic "???".
C24_OpmapTotal ==
    /\ OpmapConsistent
    /\ (last_op = "step" /\ ~Official) => LastFunc = "op_invalid"

C24_Witness ==
    /\ last_op = "new" /\ n_steps = 0 /\ n_resets = 0
    /\ opmap[234] = [name |-> "NOP", opcode |-> 234, addr_mode |-> "Implicit",
                      func |-> "op_nop"]
    /\ opmap[2].name = "???" /\ opmap[2].func = "op_invalid"
    /\ opmap[255].name = "???" /\ opmap[255].func = "op_invalid"

\* C25: the cycles a step adds to the counter equal the number of
\* cpu_load8 / cpu_store8 calls the step issues, for every opcode and state.
C25_CyclePerBusCall ==
    last_op = "step" => CyclesCharged = Len(bus_log)

\* the 16-bit operand the last step fetched after its opcode
FetchedBase == bus_log[2][3] + 256 * bus_log[3][3]

\* C26: for AbsoluteX and AbsoluteY the effective address is
\* (base + index) mod 2^16 for every base and index, the step that has fetched
\* the base not aborting.
C26_IndexedAbsoluteWraps ==
    (last_op = "step" /\ LastMode \in {"AbsoluteX", "AbsoluteY"} /\ Len(bus_log) >= 3) =>
        /\ ~panicked
        /\ LastBusCall[2] =
              (FetchedBase + (IF LastMode = "AbsoluteX" THEN pre.x ELSE pre.y)) % 65536

IndexedModes == {"AbsoluteX", "AbsoluteY", "IndirectIndexed"}

\* bus calls of the last step up to the one that completes the base address
IndexedBaseCalls == IF LastMode = "IndirectIndexed" THEN 4 ELSE 3

IndexedBase ==
    IF LastMode = "IndirectIndexed" THEN BusVal(3) + 256 * BusVal(4) ELSE FetchedBase

IndexedIndex == IF LastMode = "AbsoluteX" THEN pre.x ELSE pre.y

IndexedEffective == (IndexedBase + IndexedIndex) % 65536

IndexedDummyAddr == Page(IndexedBase) * 256 + (IndexedEffective % 256)

\* the dummy read is due: a store or read-modify-write, or a page crossing
IndexedDummyDue ==
    LastFunc \notin ReadFuncs \/ Page(IndexedEffective) # Page(IndexedBase)

\* bus calls the handler itself makes at the effective address
OperandCalls == IF LastFunc \in RmwFuncs THEN 3 ELSE 1

\* C27: for AbsoluteX, AbsoluteY and (zp),Y a read instruction issues the
\* dummy read iff base and base + index lie in different pages, a store or
\* read-modify-write instruction always; the dummy read is at
\* (base & 0xFF00) | ((base + index) & 0xFF) and precedes the operand access;
\* LDA abs,X takes 5 cycles when it crosses and 4 when not, STA abs,X always 5.
C27_IndexedDummyRead ==
    (last_op = "step" /\ LastMode \in IndexedModes /\ Len(bus_log) >= IndexedBaseCalls) =>
        /\ ~panicked
        /\ Len(bus_log) =
              IndexedBaseCalls + (IF IndexedDummyDue THEN 1 ELSE 0) + OperandCalls
        /\ CyclesCharged = Len(bus_log)
        /\ IndexedDummyDue =>
              /\ bus_log[IndexedBaseCalls + 1][1] = "load"
              /\ bus_log[IndexedBaseCalls + 1][2] = IndexedDummyAddr
              /\ bus_log[IndexedBaseCalls + 2][2] = IndexedEffective
        /\ ~IndexedDummyDue => bus_log[IndexedBaseCalls + 1][2] = IndexedEffective
        /\ (LastOpcode = 189) =>
              CyclesCharged = (IF Page(IndexedEffective) # Page(IndexedBase) THEN 5 ELSE 4)
        /\ (LastOpcode = 157) => CyclesCharged = 5

IsJmpIndirect == Rom(0) = 169 /\ Rom(2) = 141 /\ Rom(15) = 108

\* C28: JMP (p) reads the target low byte from p and the high byte from
\* (p & 0xFF00) | ((p + 1) & 0xFF), from p & 0xFF00 when the pointer's low
\* byte is 0xFF; it takes 5 cycles and PC becomes the assembled address.
C28_JmpIndirectPageWrap ==
    /\ (Stepped /\ LastFunc = "op_jmp" /\ LastMode = "Indirect") =>
          /\ Len(bus_log) = 5 /\ CyclesCharged = 5
          /\ bus_log[4][1] = "load" /\ bus_log[4][2] = FetchedBase
          /\ bus_log[5][1] = "load"
          /\ bus_log[5][2] = Page(FetchedBase) * 256 + ((FetchedBase + 1) % 256)
          /\ (FetchedBase % 256 = 255) => bus_log[5][2] = FetchedBase - 255
          /\ reg_pc = bus_log[4][3] + 256 * bus_log[5][3]
          /\ reg_a = pre.a /\ reg_x = pre.x /\ reg_y = pre.y
          /\ reg_s = pre.s /\ reg_p = pre.p
    /\ (IsJmpIndirect /\ n_steps = 7) =>
          /\ Stepped /\ LastFunc = "op_jmp" /\ LastMode = "Indirect"
          /\ FetchedBase = 512 + Rom(16)
          /\ reg_pc = Rom(1) + 256 * Rom(11)

C28_Witness ==
    /\ IsJmpIndirect /\ n_steps = 7 /\ Rom(16) = 255
    /\ ArrayGet(cpu_ram, 767) = 52 /\ ArrayGet(cpu_ram, 768) = 153
    /\ ArrayGet(cpu_ram, 512) = 192
    /\ bus_log[4] = <<"load", 767, 52>> /\ bus_log[5] = <<"load", 512, 192>>
    /\ reg_pc = 49204

\* the zero-page operand byte the last step fetched
FetchedZp == bus_log[2][3]

\* the bus calls from the k-th on that precede the operand access stay in page 0
PointerReadsInPage0(from, to) ==
    \A k \in from..to : bus_log[k][1] = "load" /\ bus_log[k][2] <= 255

\* C29: zero-page index arithmetic wraps in page 0.  ZeroPageX / ZeroPageY
\* resolve to (zp + index) mod 256 after a dummy read at zp; (zp,X) reads its
\* pointer at (zp + X) mod 256 and (zp + X + 1) mod 256 after a dummy read at
\* zp; (zp),Y reads its base at zp and (zp + 1) mod 256; none of these pointer
\* reads is above 0x00FF.
C29_ZeroPageWraps ==
    Stepped =>
        /\ LastMode \in {"ZeroPageX", "ZeroPageY"} =>
              /\ bus_log[3] = <<"load", FetchedZp, ArrayGet(pre_ram, FetchedZp)>>
              /\ bus_log[4][2] =
                    (FetchedZp + (IF LastMode = "ZeroPageX" THEN pre.x ELSE pre.y)) % 256
              /\ PointerReadsInPage0(3, 3)
        /\ LastMode = "IndexedIndirect" =>
              /\ bus_log[3][2] = FetchedZp
              /\ bus_log[4][2] = (FetchedZp + pre.x) % 256
              /\ bus_log[5][2] = (FetchedZp + pre.x + 1) % 256
              /\ bus_log[6][2] = bus_log[4][3] + 256 * bus_log[5][3]
              /\ PointerReadsInPage0(3, 5)
        /\ LastMode = "IndirectIndexed" =>
              /\ bus_log[3][2] = FetchedZp
              /\ bus_log[4][2] = (FetchedZp + 1) % 256
              /\ (FetchedZp = 255) => bus_log[4][2] = 0
              /\ IndexedBase = bus_log[3][3] + 256 * bus_log[4][3]
              /\ PointerReadsInPage0(3, 4)

C29_Witness ==
    /\ Stepped /\ LastMode = "IndexedIndirect"
    /\ FetchedZp = 254 /\ pre.x = 1
    /\ bus_log[3][2] = 254 /\ bus_log[4][2] = 255 /\ bus_log[5][2] = 0

\* the address after the branch instruction, and the branch target
BranchFrom == (pre.pc + 2) % 65536

BranchOffset == IF BusVal(2) >= 128 THEN BusVal(2) - 256 ELSE BusVal(2)

BranchTarget == (BranchFrom + BranchOffset) % 65536

\* C30: every branch reads its offset byte and advances PC past it.  Not
\* taken: 2 cycles, 2 bus reads, PC = opcode address + 2.  Taken: a dummy read
\* at PC, PC = PC + sign-extended offset (mod 2^16), and iff the new PC is in a
\* different page one more dummy read at (old_PC & 0xFF00) | (new_PC & 0xFF)
\* and one more cycle (3 or 4 in total).  No other register, no flag and no
\* memory changes.
C30_BranchSequence ==
    (Stepped /\ LastFunc \in BranchFuncs) =>
        /\ bus_log[2][1] = "load" /\ bus_log[2][2] = (pre.pc + 1) % 65536
        /\ CyclesCharged = Len(bus_log)
        /\ ~BranchTaken =>
              /\ Len(bus_log) = 2
              /\ reg_pc = BranchFrom
        /\ BranchTaken =>
              /\ bus_log[3][1] = "load" /\ bus_log[3][2] = BranchFrom
              /\ reg_pc = BranchTarget
              /\ Len(bus_log) = (IF Page(BranchTarget) # Page(BranchFrom) THEN 4 ELSE 3)
              /\ Page(BranchTarget) # Page(BranchFrom) =>
                    /\ bus_log[4][1] = "load"
                    /\ bus_log[4][2] = Page(BranchFrom) * 256 + (BranchTarget % 256)
        /\ reg_a = pre.a /\ reg_x = pre.x /\ reg_y = pre.y
        /\ reg_s = pre.s /\ reg_p = pre.p
        /\ MemoryUnchanged

C30_Witness ==
    /\ Stepped /\ LastFunc \in BranchFuncs /\ BranchTaken
    /\ BusVal(2) = 128
    /\ Page(reg_pc) = 191 /\ Page(BranchFrom) = 192
    /\ Len(bus_log) = 4 /\ CyclesCharged = 4
    /\ bus_log[4][2] = reg_pc + 256

IsBranchProgram == Rom(0) = 169 /\ Rom(2) = 141 /\ Rom(10) = 76

\* the branch written to RAM by the program is the last step
BranchInRam == IsBranchProgram /\ n_steps = 6

\* the program's branch is "from $01FD": its opcode is at 0x01FD, or the PC
\* after its offset byte is 0x01FD
FromAddr01FD == pre.pc = 509 \/ BranchFrom = 509

\* C31 as stated: a taken branch from $01FD with offset +5 does not cross a
\* page (no second dummy read, 3 cycles); with offset +10 it does (4 cycles).
C31_Original ==
    (BranchInRam /\ FromAddr01FD) =>
        /\ Rom(6) = 5 => (CyclesCharged = 3 /\ Len(bus_log) = 3)
        /\ Rom(6) = 10 => (CyclesCharged = 4 /\ Len(bus_log) = 4)

\* C31 amended: a taken branch from $01FD crosses a page with offset +5 as
\* with offset +10 (a second dummy read, 4 cycles); a taken branch at $01F6
\* with offset +5 does not cross (3 cycles) and with +10 does (4 cycles).
C31_BranchFrom01FD ==
    BranchInRam =>
        /\ Stepped /\ LastFunc = "op_bne" /\ BranchTaken
        /\ pre.pc = Rom(3) + 256 * Rom(4)
        /\ BusVal(2) = Rom(6)
        /\ reg_pc = pre.pc + 2 + Rom(6)
        /\ FromAddr01FD =>
              /\ Page(reg_pc) = 2 /\ Page(BranchFrom) = 1
              /\ CyclesCharged = 4 /\ Len(bus_log) = 4
              /\ bus_log[4][1] = "load" /\ bus_log[4][2] = 256 + (reg_pc % 256)
        /\ (pre.pc = 502 /\ Rom(6) = 5) =>
              /\ Page(reg_pc) = 1
              /\ CyclesCharged = 3 /\ Len(bus_log) = 3
        /\ (pre.pc = 502 /\ Rom(6) = 10) =>
              /\ Page(reg_pc) = 2
              /\ CyclesCharged = 4 /\ Len(bus_log) = 4

C31_Witness ==
    /\ BranchInRam /\ pre.pc = 509 /\ Rom(6) = 5
    /\ bus_log[1] = <<"load", 509, 208>> /\ bus_log[2] = <<"load", 510, 5>>
    /\ bus_log[3][2] = 511 /\ bus_log[4][2] = 260
    /\ reg_pc = 516 /\ CyclesCharged = 4

\* the address of the last byte of the instruction the last step ran, if it
\* has three bytes
LastByteAddr == (pre.pc + 2) % 65536

\* C32: JSR at address a, after the opcode fetch: reads the target low byte at
\* a + 1, reads 0x0100 | S as a dummy, writes the high byte of a + 2 at
\* 0x0100 | S and its low byte at 0x0100 | (S - 1), reads the target high byte
\* at a + 2; then PC = (high << 8) | low, S is 2 less, 6 cycles in total.
C32_JsrSequence ==
    (Stepped /\ LastFunc = "op_jsr") =>
        /\ Len(bus_log) = 6 /\ CyclesCharged = 6
        /\ bus_log[2][1] = "load" /\ bus_log[2][2] = (pre.pc + 1) % 65536
        /\ bus_log[3][1] = "load" /\ bus_log[3][2] = StackAddr(pre.s, 0)
        /\ bus_log[4] = <<"store", StackAddr(pre.s, 0), LastByteAddr \div 256>>
        /\ bus_log[5] = <<"store", StackAddr(pre.s, -1), LastByteAddr % 256>>
        /\ bus_log[6][1] = "load" /\ bus_log[6][2] = LastByteAddr
        /\ reg_pc = bus_log[2][3] + 256 * bus_log[6][3]
        /\ reg_s = (pre.s - 2) % 256
        /\ reg_a = pre.a /\ reg_x = pre.x /\ reg_y = pre.y /\ reg_p = pre.p

C32_Witness ==
    /\ Stepped /\ LastFunc = "op_jsr"
    /\ pre.pc = 49155 /\ pre.s = 0 /\ reg_s = 254
    /\ bus_log[3][2] = 256
    /\ bus_log[4] = <<"store", 256, 192>>
    /\ bus_log[5] = <<"store", 511, 5>>
    /\ reg_pc = 49160

\* the byte a read-modify-write handler makes of v, with carry-in c (0 or 1)
RmwResult(func, v, c) ==
    CASE func = "op_asl_m" -> (2 * v) % 256
      [] func = "op_lsr_m" -> v \div 2
      [] func = "op_rol_m" -> (2 * v + c) % 256
      [] func = "op_ror_m" -> (v \div 2) + 128 * c
      [] func = "op_inc" -> (v + 1) % 256
      [] func = "op_dec" -> (v - 1) % 256

\* the last three bus calls of the last step are read v, write v, write `new`
\* at one address
RmwTail(n, new) ==
    /\ bus_log[n - 2][1] = "load"
    /\ bus_log[n - 1] = <<"store", bus_log[n - 2][2], bus_log[n - 2][3]>>
    /\ bus_log[n] = <<"store", bus_log[n - 2][2], new>>
    /\ \A k \in 1..(n - 2) : bus_log[k][1] = "load"

PullFuncs == {"op_pla", "op_plp", "op_rts", "op_rti"}

\* C34: every instruction whose table entry has mode Implicit (BRK included)
\* issues, right after the opcode fetch, a dummy read at PC = opcode address
\* + 1 without advancing PC; PLA, PLP, RTS and RTI then issue a dummy read at
\* 0x0100 | S before S is incremented.
C34_ImplicitDummyRead ==
    (Stepped /\ Official /\ LastMode = "Implicit") =>
        /\ Len(bus_log) >= 2
        /\ bus_log[2][1] = "load" /\ bus_log[2][2] = (pre.pc + 1) % 65536
        /\ LastFunc \notin {"op_rts", "op_rti", "op_brk"} =>
              reg_pc = (pre.pc + 1) % 65536
        /\ LastFunc \in PullFuncs =>
              /\ bus_log[3][1] = "load" /\ bus_log[3][2] = StackAddr(pre.s, 0)
              /\ bus_log[4][1] = "load" /\ bus_log[4][2] = StackAddr(pre.s, 1)

FlagFuncs == {"op_clc", "op_sec", "op_cli", "op_sei", "op_cld", "op_sed", "op_clv"}

\* the bit of P a flag instruction names
FlagBit(func) ==
    CASE func \in {"op_clc", "op_sec"} -> Flag_Carry
      [] func \in {"op_cli", "op_sei"} -> Flag_InterruptDisable
      [] func \in {"op_cld", "op_sed"} -> Flag_Decimal
      [] OTHER -> Flag_Overflow

\* C35: CLC, SEC, CLI, SEI, CLD, SED and CLV change only the named bit of P, to
\* 0 for CLx and to 1 for SEx; the other bits of P, A, X, Y, S and memory are
\* unchanged and PC advances by exactly 1.
C35_FlagInstructions ==
    (Stepped /\ LastFunc \in FlagFuncs) =>
        LET bit == FlagBit(LastFunc)
            rest == pre.p - (IF PreFlag(bit) THEN bit ELSE 0)
        IN  /\ reg_p = rest + (IF LastFunc \in {"op_sec", "op_sei", "op_sed"} THEN bit ELSE 0)
            /\ reg_a = pre.a /\ reg_x = pre.x /\ reg_y = pre.y /\ reg_s = pre.s
            /\ reg_pc = (pre.pc + 1) % 65536
            /\ MemoryUnchanged

\* CLD clears D while C, Z, I, V and N stay set
C35_Witness ==
    /\ Stepped /\ LastFunc = "op_cld"
    /\ pre.p = 207 /\ reg_p = 199
    /\ reg_pc = (pre.pc + 1) % 65536

\* the register a store instruction writes, as it was before the step
StoreSource ==
    CASE LastFunc = "op_sta" -> pre.a
      [] LastFunc = "op_stx" -> pre.x
      [] OTHER -> pre.y

\* the effective address of the last step, from the bytes it fetched
EffectiveAddr ==
    CASE LastMode = "ZeroPage" -> FetchedZp
      [] LastMode = "ZeroPageX" -> (FetchedZp + pre.x) % 256
      [] LastMode = "ZeroPageY" -> (FetchedZp + pre.y) % 256
      [] LastMode = "Absolute" -> FetchedBase
      [] LastMode = "IndexedIndirect" -> BusVal(4) + 256 * BusVal(5)
      [] OTHER -> IndexedEffective

WritingFuncs == StoreFuncs \cup RmwFuncs \cup {"op_pha", "op_php", "op_jsr", "op_brk"}

\* C37: a step whose opcode, official or invalid, is not a store, a memory
\* read-modify-write or a push (PHA, PHP, JSR, BRK) issues only cpu_load8
\* calls, and memory is unchanged.
C37_OnlyListedInstructionsWrite ==
    (last_op = "step" /\ LastFunc \notin WritingFuncs) => MemoryUnchanged

\* LDA abs,X across a page boundary: five bus calls, all loads, the dummy read
\* at the uncorrected address among them
C37_Witness ==
    /\ Stepped /\ LastFunc = "op_lda" /\ LastMode = "AbsoluteX"
    /\ Page(IndexedEffective) # Page(IndexedBase)
    /\ Len(bus_log) = 5
    /\ bus_log[4] = <<"load", IndexedDummyAddr, BusVal(4)>>
    /\ MemoryUnchanged

IsInterruptProgram == Rom(2) = 154 /\ Rom(3) = 169 /\ Rom(5) = 72 /\ Rom(6) = 40

\* C38: when the step after a BRK is an RTI at the interrupt vector's target,
\* the RTI leaves P (I included) and S as they were before the BRK and sets PC
\* to the address the BRK pushed, without an increment.
C38_BrkThenRti ==
    [][ (/\ Stepped /\ LastFunc = "op_brk"
         /\ last_op' = "step" /\ ~panicked'
         /\ opmap[bus_log'[1][3]].func = "op_rti") =>
            /\ bus_log'[1][2] = reg_pc
            /\ reg_p' = pre.p
            /\ reg_s' = pre.s
            /\ reg_pc' = BusVal(2) * 256 + BusVal(3) ]_vars

\* LDX #$01 ; TXS ; LDA #$C3 ; PHA ; PLP ; CLI ; BRK, then RTI at 0xC020: the
\* pushes wrap S from 0x00 to 0xFF, and the RTI returns to 0xC009 with I clear
C38_Witness ==
    /\ IsInterruptProgram /\ Rom(1) = 1 /\ Rom(4) = 195 /\ Rom(7) = 88
    /\ n_steps = 8 /\ Stepped /\ LastFunc = "op_rti"
    /\ pre.pc = 49184 /\ pre.s = 254 /\ pre.p = 199
    /\ reg_pc = 49161 /\ reg_s = 1 /\ reg_p = 195

\* the bus after overwrite_prg_rom(0xFFFC, lo) and overwrite_prg_rom(0xFFFD, hi)
VectorForced(lo, hi) ==
    overwrite_prg_rom(overwrite_prg_rom(Bus, 65532, lo), 65533, hi)

\* a and b select the same byte of the loaded PRG-ROM
MirrorsInRom(a, b) ==
    /\ prg_rom_mask \in {16383, 32767}
    /\ a % (prg_rom_mask + 1) = b % (prg_rom_mask + 1)

VectorBytes == {0, 1, 171, 192}

\* C39: in every Mapper000 state, before load_prg_rom too,
\* overwrite_prg_rom(0xFFFC, lo) then overwrite_prg_rom(0xFFFD, hi) make
\* cpu_load8(0xFFFC) = lo and cpu_load8(0xFFFD) = hi, so that reset loads
\* PC = (hi << 8) | lo; and overwrite_prg_rom(a, v) changes the byte read at b
\* only when b >= 0x8000 mirrors a in the loaded ROM size.
C39_OverwriteForcesResetVector ==
    /\ \A lo \in VectorBytes, hi \in VectorBytes :
          /\ cpu_load8(VectorForced(lo, hi), 65532) = lo
          /\ cpu_load8(VectorForced(lo, hi), 65533) = hi
          /\ reset(Cpu_new(VectorForced(lo, hi))).pc = hi * 256 + lo
    /\ \A a \in MapperAddrs, b \in MapperAddrs, v \in MapperBytes :
          cpu_load8(overwrite_prg_rom(Bus, a, v), b) # cpu_load8(Bus, b) =>
              b >= 32768 /\ MirrorsInRom(a, b)

\* C40: in the frontend's Mapper000 a store8 to 0x8000..0xFFFF is ignored: a
\* load8 at any address returns the same byte after the store as before it.
C40_FrontendRomStoreIgnored ==
    [][ (last_op' = "store8" /\ bus_log'[1][2] >= 32768) =>
            /\ prg_rom' = prg_rom
            /\ \A a \in MapperAddrs :
                  load8([cpu_ram |-> cpu_ram', cart_rom |-> prg_rom'], a)
                      = load8(FrontendBus, a) ]_vars

====
